---- MODULE Spec2Model ----
(***************************************************************************)
(* A model of etcdb's SQL node store (backend/sql.go, backend/condition.go *)
(* and backend/dialect.go): the "nodes", "changes" and "index" tables, the *)
(* store operations Get, Set, SetTTL, MkDir, Delete, RmDir, CreateInOrder, *)
(* and the expiration sweep that Begin runs before every transaction;      *)
(* and of the change watcher that serves watches from the "changes" table  *)
(* (ChangeWatcher, changeList, change and watch in backend/sql.go).        *)
(*                                                                         *)
(* Strings (keys, values, error causes) are sequences of one-character     *)
(* strings, so that splitKey, pathDepth, LIKE and Sprintf are computed     *)
(* character by character as the code computes them.                       *)
(***************************************************************************)
EXTENDS Integers, Sequences, FiniteSets, TLC

VARIABLES nodes, changes, index, now, last, cw, ws, txs

vars == <<nodes, changes, index, now, last, cw, ws, txs>>

----------------------------------------------------------------------------
(* Bounds of the model *)

\* operations are issued while the global index is below MaxIndex
MaxIndex == 2
\* the clock stops at MaxTime
MaxTime == 2
\* capacity of the watcher's ring of changes (MaxChanges in the program)
RingCapacity == 2
\* watches made by NextChange
MaxWatches == 1

(* Program constants *)

MaxChanges == 1000

\* SQL NULL / Go nil for an integer or timestamp column
Null == -1

----------------------------------------------------------------------------
(* Strings *)

Root == <<"/">>
KeyA == <<"/", "a">>
KeyA2 == <<"/", "a", "/", "2">>

KeyA23 == <<"/", "a", "/", "2", "/", "3">>
KeyB == <<"/", "b">>

\* keys the operations are called with
Keys == {Root, KeyA, KeyA2}
\* keys of a path of three components
TreeKeys == {KeyA, KeyA2, KeyA23}
\* keys CreateInOrder is called with
OrderKeys == {KeyA}
ValueX == <<"x">>
ValueY == <<"y">>
\* values Set is called with
Values == {ValueX, ValueY}
\* values SetTTL and CreateInOrder are called with
TTLValues == {ValueX}
\* ttl arguments: nil or one second
TTLs == {Null, 1}

Digits == <<"0", "1", "2", "3", "4", "5", "6", "7", "8", "9">>

\* fmt's %d of a non-negative integer
RECURSIVE FormatInt(_)
FormatInt(n) ==
  IF n < 10 THEN <<Digits[n + 1]>>
  ELSE FormatInt(n \div 10) \o <<Digits[(n % 10) + 1]>>

\* position of the last '/' of key at or before i, 0 when there is none
RECURSIVE LastSlash(_, _)
LastSlash(key, i) ==
  IF i = 0 THEN 0
  ELSE IF key[i] = "/" THEN i
  ELSE LastSlash(key, i - 1)

splitKey(key) ==
  LET i == LastSlash(key, Len(key))
  IN IF i = 0 THEN <<>>
     ELSE IF i = 1 THEN Root
     ELSE SubSeq(key, 1, i - 1)

pathDepth(key) ==
  IF key = Root THEN 0
  ELSE Cardinality({i \in 1..Len(key) : key[i] = "/"})

\* SQL: s LIKE p, with the wildcards % and _ and the escape character \
RECURSIVE Like(_, _)
Like(s, p) ==
  IF p = <<>> THEN s = <<>>
  ELSE IF Head(p) = "%"
    THEN Like(s, Tail(p)) \/ (s # <<>> /\ Like(Tail(s), p))
  ELSE IF Head(p) = "\\" /\ Len(p) >= 2
    THEN s # <<>> /\ Head(s) = p[2] /\ Like(Tail(s), Tail(Tail(p)))
  ELSE s # <<>> /\ (Head(p) = "_" \/ Head(p) = Head(s)) /\ Like(Tail(s), Tail(p))

\* WHERE "key" = k OR "key" LIKE k || '/%'
MatchesSubtree(rowKey, k) == rowKey = k \/ Like(rowKey, k \o <<"/", "%">>)

----------------------------------------------------------------------------
(* models.Node and models.Error *)

NilNode == [key |-> <<>>, value |-> <<>>, createdIndex |-> 0, modifiedIndex |-> 0,
            dir |-> FALSE, ttl |-> Null, expiration |-> Null]

NoErr == [errorCode |-> 0, cause |-> <<>>, index |-> 0]

NotFound(key, idx) == [errorCode |-> 100, cause |-> key, index |-> idx]

CompareFailed(expected, actual, idx) ==
  [errorCode |-> 101,
   cause |-> <<"[">> \o expected \o <<" ", "!", "=", " ">> \o actual \o <<"]">>,
   index |-> idx]

NotAFileAsNotADirectory(key, idx) == [errorCode |-> 104, cause |-> key, index |-> idx]

NotAFile(key, idx) == [errorCode |-> 102, cause |-> key, index |-> idx]

NotADirectory(key, idx) == [errorCode |-> 104, cause |-> key, index |-> idx]

KeyExists(key, idx) == [errorCode |-> 105, cause |-> key, index |-> idx]

DirectoryNotEmpty(key, idx) == [errorCode |-> 108, cause |-> key, index |-> idx]

RootReadOnly(idx) == [errorCode |-> 107, cause |-> Root, index |-> idx]

\* a driver error that is not a models.Error: primary key violation
DuplicateKeyError == [errorCode |-> 1062, cause |-> <<>>, index |-> 0]

\* a nil pointer dereference in the handler
Panic == [errorCode |-> -1, cause |-> <<>>, index |-> 0]

----------------------------------------------------------------------------
(* Conditions *)

Always == [kind |-> "Always", value |-> <<>>, index |-> 0, exist |-> FALSE]
PrevValue(s) == [kind |-> "PrevValue", value |-> s, index |-> 0, exist |-> FALSE]
PrevIndex(i) == [kind |-> "PrevIndex", value |-> <<>>, index |-> i, exist |-> FALSE]
PrevExist(b) == [kind |-> "PrevExist", value |-> <<>>, index |-> 0, exist |-> b]

\* conditions Set is called with
SetConditions ==
  {Always, PrevExist(TRUE), PrevExist(FALSE), PrevValue(ValueX), PrevIndex(1)}
\* conditions SetTTL is called with
SetTTLConditions == {Always, PrevValue(ValueX)}
\* conditions MkDir is called with
MkDirConditions == {Always}
\* conditions Delete is called with
DeleteConditions == {Always, PrevValue(ValueX), PrevIndex(1)}
\* conditions RmDir is called with
RmDirConditions == {Always, PrevIndex(1)}

CheckNoNilTest(cond, key, idx, node) ==
  CASE cond.kind = "Always" -> NoErr
    [] cond.kind = "PrevValue" ->
         IF node.value # cond.value
         THEN CompareFailed(cond.value, node.value, idx)
         ELSE NoErr
    [] cond.kind = "PrevIndex" ->
         IF node.modifiedIndex # cond.index
         THEN CompareFailed(FormatInt(cond.index), FormatInt(node.modifiedIndex), idx)
         ELSE NoErr
    [] OTHER ->
         IF node # NilNode /\ ~cond.exist THEN KeyExists(key, idx) ELSE NoErr

Check(cond, key, idx, node) ==
  CASE cond.kind = "Always" -> NoErr
    [] cond.kind = "PrevValue" ->
         IF node = NilNode THEN NotFound(key, idx)
         ELSE IF node.value # cond.value
         THEN CompareFailed(cond.value, node.value, idx)
         ELSE NoErr
    [] cond.kind = "PrevIndex" ->
         IF node = NilNode THEN NotFound(key, idx)
         ELSE IF node.modifiedIndex # cond.index
         THEN CompareFailed(FormatInt(cond.index), FormatInt(node.modifiedIndex), idx)
         ELSE NoErr
    [] OTHER ->
         IF node = NilNode
         THEN (IF cond.exist THEN NotFound(key, idx) ELSE NoErr)
         ELSE IF ~cond.exist THEN KeyExists(key, idx)
         ELSE NoErr

SetActionNameAllSet(cond) == "set"

SetActionName(cond) ==
  CASE cond.kind = "Always" -> "set"
    [] cond.kind = "PrevValue" -> "compareAndSwap"
    [] cond.kind = "PrevIndex" -> "compareAndSwap"
    [] OTHER -> IF cond.exist THEN "update" ELSE "create"

DeleteActionName(cond) ==
  CASE cond.kind = "Always" -> "set"
    [] OTHER -> "compareAndDelete"

----------------------------------------------------------------------------
(* The database: tables "nodes", "changes" and the single row of "index" *)

Db(n, c, i) == [nodes |-> n, changes |-> c, index |-> i]

NodeRowPrevIndex(key, value, dir, idx, expiration) ==
  [key |-> key, created |-> idx - 1, modified |-> idx - 1, deleted |-> 0,
   value |-> value, expiration |-> expiration, dir |-> dir,
   path_depth |-> pathDepth(key)]

NodeRow(key, value, dir, idx, expiration) ==
  [key |-> key, created |-> idx, modified |-> idx, deleted |-> 0,
   value |-> value, expiration |-> expiration, dir |-> dir,
   path_depth |-> pathDepth(key)]

\* INSERT INTO nodes without the primary key check
InsertNodeNoKey(db, row) ==
  [ok |-> TRUE, db |-> [db EXCEPT !.nodes = @ \cup {row}]]

\* INSERT INTO nodes: PRIMARY KEY ("key", "deleted")
InsertNode(db, row) ==
  IF \E r \in db.nodes : r.key = row.key /\ r.deleted = row.deleted
  THEN [ok |-> FALSE, db |-> db]
  ELSE [ok |-> TRUE, db |-> [db EXCEPT !.nodes = @ \cup {row}]]

\* INSERT INTO changes: PRIMARY KEY ("index", "key")
InsertChange(db, row) ==
  IF \E c \in db.changes : c.index = row.index /\ c.key = row.key
  THEN [ok |-> FALSE, db |-> db]
  ELSE [ok |-> TRUE, db |-> [db EXCEPT !.changes = @ \cup {row}]]

scanNode(r, t) ==
  [key |-> r.key, value |-> r.value, createdIndex |-> r.created,
   modifiedIndex |-> r.modified, dir |-> r.dir,
   ttl |-> IF r.expiration = Null THEN Null ELSE r.expiration - t,
   expiration |-> r.expiration]

\* SELECT ... FROM "nodes" WHERE "deleted" = 0
queryNode(db) == {r \in db.nodes : r.deleted = 0}

getOne(db, key, t) ==
  LET rows == {r \in queryNode(db) : r.key = key}
  IN IF rows = {} THEN NilNode ELSE scanNode(CHOOSE r \in rows : TRUE, t)

currIndex(db) == db.index

\* the UPDATE of "index" left out
incrementIndexNone(db) == db

incrementIndex(db) == [db EXCEPT !.index = @ + 1]

\* UPDATE nodes SET deleted = idx WHERE deleted = 0 AND "key" = key
TombstoneKey(db, key, idx) ==
  [db EXCEPT !.nodes =
     {IF r.deleted = 0 /\ r.key = key THEN [r EXCEPT !.deleted = idx] ELSE r : r \in @}]

\* the UPDATE without the LIKE: only the row of the key
TombstoneSubtreeKeyOnly(db, key, idx) == TombstoneKey(db, key, idx)

\* UPDATE nodes SET deleted = idx
\*   WHERE deleted = 0 AND ("key" = key OR "key" LIKE key || '/%')
TombstoneSubtree(db, key, idx) ==
  [db EXCEPT !.nodes =
     {IF r.deleted = 0 /\ MatchesSubtree(r.key, key)
      THEN [r EXCEPT !.deleted = idx] ELSE r : r \in @}]

RowsAffectedSubtree(db, key) ==
  Cardinality({r \in queryNode(db) : MatchesSubtree(r.key, key)})

recordChange(db, idx, action, key, prevNode) ==
  LET row == [index |-> idx, key |-> key, action |-> action,
              prev_node_modified |->
                IF prevNode = NilNode THEN Null ELSE prevNode.modifiedIndex]
      inserted(ins) ==
        IF ~ins.ok THEN [err |-> DuplicateKeyError, db |-> db]
        ELSE [err |-> NoErr,
              db |-> [ins.db EXCEPT
                        !.changes = {c \in @ : ~(c.index < idx - MaxChanges)},
                        !.nodes = {r \in @ :
                                     ~(r.deleted > 0 /\ r.deleted < idx - MaxChanges)}]]
  IN inserted(InsertChange(db, row))

\* an insert that writes an expiration whatever the ttl argument
ExpirationKept(ttl, t) == IF ttl = Null THEN t + 1 ELSE t + ttl

\* the expiration column an insert writes for a ttl argument
Expiration(ttl, t) == IF ttl = Null THEN Null ELSE t + ttl

RECURSIVE mkdirsLoop(_, _, _, _)
mkdirsLoop(db, path, idx, depth) ==
  IF path = Root \/ path = <<>> THEN [err |-> NoErr, db |-> db]
  ELSE LET row == [NodeRow(path, <<>>, TRUE, idx, Null) EXCEPT !.path_depth = depth]
           inserted(ins) ==
             IF ~ins.ok
             THEN LET existing == CHOOSE r \in queryNode(db) : r.key = path
                  IN IF ~existing.dir
                     THEN [err |-> NotADirectory(path, idx), db |-> db]
                     ELSE [err |-> NoErr, db |-> db]
             ELSE mkdirsLoop(ins.db, splitKey(path), idx, depth - 1)
       IN inserted(InsertNode(db, row))

\* mkdirs without the loop: only the immediate parent is inserted
mkdirsParentOnly(db, path, idx) ==
  IF path = Root \/ path = <<>> THEN [err |-> NoErr, db |-> db]
  ELSE [err |-> NoErr, db |-> InsertNode(db, NodeRow(path, <<>>, TRUE, idx, Null)).db]

mkdirs(db, path, idx) == mkdirsLoop(db, path, idx, pathDepth(path))

----------------------------------------------------------------------------
(* The expiration sweep *)

\* SELECT "key", "modified" FROM "nodes" WHERE "deleted" = 0 AND "expiration" < now
ExpiredRows(db, t) ==
  {r \in queryNode(db) : r.expiration # Null /\ r.expiration < t}

\* ORDER BY "expiration": every order of the expired rows that is sorted by
\* expiration; rows with equal expiration come in any order
SweepOrders(db, t) ==
  LET S == ExpiredRows(db, t)
      n == Cardinality(S)
  IN {ord \in [1..n -> S] :
        /\ \A i, j \in 1..n : i # j => ord[i] # ord[j]
        /\ \A i, j \in 1..n : i < j => ord[i].expiration <= ord[j].expiration}

RECURSIVE purgeLoop(_, _, _, _)
purgeLoop(db, ord, i, expirationIndex) ==
  IF i > Len(ord) THEN [err |-> NoErr, db |-> db, expirationIndex |-> expirationIndex]
  ELSE LET node == [NilNode EXCEPT !.key = ord[i].key,
                                   !.modifiedIndex = ord[i].modified]
           recorded(rc) ==
             IF rc.err # NoErr
             THEN [err |-> rc.err, db |-> db, expirationIndex |-> expirationIndex]
             ELSE purgeLoop(TombstoneSubtree(rc.db, node.key, expirationIndex),
                            ord, i + 1, expirationIndex + 1)
       IN recorded(recordChange(db, expirationIndex, "expire", node.key, node))

purgeExpiredKeepIndex(db, ord) ==
  LET swept(loop) ==
        IF loop.err # NoErr THEN [err |-> loop.err, db |-> db]
        ELSE [err |-> NoErr, db |-> [loop.db EXCEPT !.index = loop.expirationIndex - 1]]
      inTx(tx) ==
        IF Len(ord) = 0 THEN [err |-> NoErr, db |-> tx]
        ELSE swept(purgeLoop(tx, ord, 1, tx.index))
  IN inTx(incrementIndex(db))

\* ord is the result of the SELECT; an empty result rolls the increment back
purgeExpired(db, ord) ==
  LET swept(loop) ==
        IF loop.err # NoErr THEN [err |-> loop.err, db |-> db]
        ELSE [err |-> NoErr, db |-> [loop.db EXCEPT !.index = loop.expirationIndex - 1]]
      inTx(tx) ==
        IF Len(ord) = 0 THEN [err |-> NoErr, db |-> db]
        ELSE swept(purgeLoop(tx, ord, 1, tx.index))
  IN inTx(incrementIndex(db))

Begin(db, ord) == purgeExpired(db, ord)

----------------------------------------------------------------------------
(* Store operations.  Each takes the database, the clock and the result of  *)
(* the sweep's SELECT, and returns the database it leaves behind with what  *)
(* the call returns.  A failed transaction is rolled back to the database   *)
(* that Begin left (the sweep commits in a transaction of its own).         *)
(* The steps of an operation are local operators in the order of the code,  *)
(* each taking the results of the statements before it.                     *)

Result(db, err, node, prev, idx, kids) ==
  [db |-> db, err |-> err, node |-> node, prev |-> prev, index |-> idx, kids |-> kids]

Failed(db, err) == Result(db, err, NilNode, NilNode, 0, {})

readOnlyErrorNotFound(db) == NotFound(Root, currIndex(db))

readOnlyError(db) == RootReadOnly(currIndex(db))

Get(db0, t, ord, key, recursive) ==
  LET \* the map's key of an entry: the synthesized root is stored under "/"
      mapKey(n) == IF key = Root /\ n.key = <<>> THEN Root ELSE n.key
      \* the nodes map filled from the rows, the root synthesized
      mapped(tx, found) ==
        LET requested == {n \in found : mapKey(n) = key}
            others == {n \in found : ~(n.key = key \/ n.key = <<>>)}
        IN IF requested = {} THEN Failed(tx, NotFound(key, currIndex(tx)))
           ELSE IF \E n \in others : \A m \in found : mapKey(m) # splitKey(n.key)
             THEN Failed(tx, Panic)
           ELSE Result(tx, NoErr, CHOOSE n \in requested : TRUE, NilNode, 0, others)
      scan(tx, rows) ==
        mapped(tx, IF key = Root
                   THEN {scanNode(r, t) : r \in {q \in rows : q.key # Root}}
                          \cup {[NilNode EXCEPT !.dir = TRUE]}
                   ELSE {scanNode(r, t) : r \in rows})
      query(tx) ==
        scan(tx, IF key = Root
                 THEN {r \in queryNode(tx) : recursive \/ r.path_depth = 1}
                 ELSE {r \in queryNode(tx) :
                         \/ r.key = key
                         \/ /\ Like(r.key, key \o <<"/", "%">>)
                            /\ recursive \/ r.path_depth = pathDepth(key) + 1})
      begun(b) ==
        IF b.err # NoErr THEN Failed(db0, b.err)
        ELSE query(b.db)
  IN begun(Begin(db0, ord))

setNoRollback(db0, t, ord, key, value, dir, ttl, cond) ==
  LET \* the transaction after Begin (b) and incrementIndex (tx1)
      inTx(b, tx1) ==
        LET idx == tx1.index
            prevIndex == idx - 1
            recorded(prevNode, ins, node, rc) ==
              IF rc.err # NoErr THEN Failed(ins.db, rc.err)
              ELSE Result(rc.db, NoErr, node, prevNode, idx, {})
            inserted(prevNode, tx2, ins) ==
              IF ~ins.ok THEN Failed(tx2, DuplicateKeyError)
              ELSE recorded(prevNode, ins, getOne(ins.db, key, t),
                            recordChange(ins.db, idx, SetActionName(cond), key, prevNode))
            tombstoned(prevNode, tx2) ==
              inserted(prevNode, tx2,
                       InsertNode(tx2, NodeRow(key, value, dir, idx, Expiration(ttl, t))))
            made(prevNode, md) ==
              IF md.err # NoErr THEN Failed(md.db, md.err)
              ELSE tombstoned(prevNode,
                              IF prevNode # NilNode THEN TombstoneKey(md.db, key, idx)
                              ELSE md.db)
            checked(prevNode, chk) ==
              IF chk # NoErr THEN Failed(tx1, chk)
              ELSE IF prevNode # NilNode /\ prevNode.dir
                THEN Failed(tx1, NotAFile(key, prevIndex))
              ELSE made(prevNode, mkdirs(tx1, splitKey(key), idx))
            got(prevNode) == checked(prevNode, Check(cond, key, prevIndex, prevNode))
        IN got(getOne(tx1, key, t))
      begun(b) ==
        IF b.err # NoErr THEN Failed(db0, b.err)
        ELSE inTx(b, incrementIndex(b.db))
  IN IF key = Root THEN Failed(db0, readOnlyError(db0))
     ELSE begun(Begin(db0, ord))

set(db0, t, ord, key, value, dir, ttl, cond) ==
  LET \* the transaction after Begin (b) and incrementIndex (tx1)
      inTx(b, tx1) ==
        LET idx == tx1.index
            prevIndex == idx - 1
            recorded(prevNode, node, rc) ==
              IF rc.err # NoErr THEN Failed(b.db, rc.err)
              ELSE Result(rc.db, NoErr, node, prevNode, idx, {})
            inserted(prevNode, ins) ==
              IF ~ins.ok THEN Failed(b.db, DuplicateKeyError)
              ELSE recorded(prevNode, getOne(ins.db, key, t),
                            recordChange(ins.db, idx, SetActionName(cond), key, prevNode))
            tombstoned(prevNode, tx2) ==
              inserted(prevNode,
                       InsertNode(tx2, NodeRow(key, value, dir, idx, Expiration(ttl, t))))
            made(prevNode, md) ==
              IF md.err # NoErr THEN Failed(b.db, md.err)
              ELSE tombstoned(prevNode,
                              IF prevNode # NilNode THEN TombstoneKey(md.db, key, idx)
                              ELSE md.db)
            checked(prevNode, chk) ==
              IF chk # NoErr THEN Failed(b.db, chk)
              ELSE IF prevNode # NilNode /\ prevNode.dir
                THEN Failed(b.db, NotAFile(key, prevIndex))
              ELSE made(prevNode, mkdirs(tx1, splitKey(key), idx))
            got(prevNode) == checked(prevNode, Check(cond, key, prevIndex, prevNode))
        IN got(getOne(tx1, key, t))
      begun(b) ==
        IF b.err # NoErr THEN Failed(db0, b.err)
        ELSE inTx(b, incrementIndex(b.db))
  IN IF key = Root THEN Failed(db0, readOnlyError(db0))
     ELSE begun(Begin(db0, ord))

CreateInOrder(db0, t, ord, key0, value, ttl) ==
  LET \* the transaction after Begin (b) and incrementIndex (tx1)
      inTx(b, tx1) ==
        LET idx == tx1.index
            recorded(node, rc) ==
              IF rc.err # NoErr THEN Failed(b.db, rc.err)
              ELSE Result(rc.db, NoErr, node, NilNode, idx, {})
            inserted(key, ins) ==
              IF ~ins.ok THEN Failed(b.db, DuplicateKeyError)
              ELSE recorded(getOne(ins.db, key, t),
                            recordChange(ins.db, idx, "create", key, NilNode))
            named(key) ==
              inserted(key, InsertNode(tx1, NodeRow(key, value, FALSE, idx,
                                                    Expiration(ttl, t))))
        IN named(key0 \o <<"/">> \o FormatInt(idx))
      begun(b) ==
        IF b.err # NoErr THEN Failed(db0, b.err)
        ELSE inTx(b, incrementIndex(b.db))
  IN begun(Begin(db0, ord))

Delete(db0, t, ord, key, cond) ==
  LET \* the transaction after Begin (b) and incrementIndex (tx1)
      inTx(b, tx1) ==
        LET idx == tx1.index
            prevIndex == idx - 1
            recorded(node, rc) ==
              IF rc.err # NoErr THEN Failed(b.db, rc.err)
              ELSE Result(rc.db, NoErr, NilNode, node, idx, {})
            checked(node, chk) ==
              IF node = NilNode THEN Failed(b.db, NotFound(key, prevIndex))
              ELSE IF node.dir THEN Failed(b.db, NotAFile(key, prevIndex))
              ELSE IF chk # NoErr THEN Failed(b.db, chk)
              ELSE recorded(node, recordChange(TombstoneKey(tx1, key, idx), idx,
                                               DeleteActionName(cond), key, node))
            got(node) == checked(node, Check(cond, key, prevIndex, node))
        IN got(getOne(tx1, key, t))
      begun(b) ==
        IF b.err # NoErr THEN Failed(db0, b.err)
        ELSE inTx(b, incrementIndex(b.db))
  IN IF key = Root THEN Failed(db0, readOnlyError(db0))
     ELSE begun(Begin(db0, ord))

RmDir(db0, t, ord, key, recursive, cond) ==
  LET \* the transaction after Begin (b) and incrementIndex (tx1)
      inTx(b, tx1) ==
        LET idx == tx1.index
            prevIndex == idx - 1
            recorded(node, rc) ==
              IF rc.err # NoErr THEN Failed(b.db, rc.err)
              ELSE Result(rc.db, NoErr, NilNode, node, idx, {})
            checked(node, chk) ==
              IF node = NilNode THEN Failed(b.db, NotFound(key, prevIndex))
              ELSE IF chk # NoErr THEN Failed(b.db, chk)
              ELSE IF ~recursive /\ RowsAffectedSubtree(tx1, key) > 1
                THEN Failed(b.db, DirectoryNotEmpty(key, prevIndex))
              ELSE recorded(node, recordChange(TombstoneSubtree(tx1, key, idx), idx,
                                               DeleteActionName(cond), key, node))
            got(node) == checked(node, Check(cond, key, prevIndex, node))
        IN got(getOne(tx1, key, t))
      begun(b) ==
        IF b.err # NoErr THEN Failed(db0, b.err)
        ELSE inTx(b, incrementIndex(b.db))
  IN IF key = Root THEN Failed(db0, readOnlyError(db0))
     ELSE begun(Begin(db0, ord))

----------------------------------------------------------------------------
(* The change watcher.  cw is the state of the watcher task: its ring of    *)
(* changes, its set of pending watches, lastIndex, and whether the task has *)
(* run its first refresh or has panicked.  ws holds the watches NewWatch    *)
(* has made, in order; cw.watches holds positions in ws.                    *)

\* a nil *models.ActionUpdate
NilAction == [action |-> "", node |-> NilNode, prev |-> NilNode]

ActionUpdate(action, node, prev) == [action |-> action, node |-> node, prev |-> prev]

\* errors.New("one of the nodes for this change has been cleared")
ErrChangeIndexCleared == [errorCode |-> -2, cause |-> <<>>, index |-> 0]

\* fmt.Errorf("action type %s should have prev_node_modified set", ...)
ErrPrevNodeModified == [errorCode |-> -3, cause |-> <<>>, index |-> 0]

EventIndexCleared(oldest, waitIndex, idx) ==
  [errorCode |-> 401,
   cause |-> <<"[">> \o FormatInt(oldest) \o <<"/">> \o FormatInt(waitIndex) \o <<"]">>,
   index |-> idx]

\* the zero value of the change struct
ZeroChange ==
  [Index |-> 0, Key |-> <<>>, Action |-> "", PrevNodeModified |-> Null,
   value |-> NilAction]

newChangeList(capacity) ==
  [changes |-> [i \in 1..capacity |-> ZeroChange], Capacity |-> capacity,
   Begin |-> 0, Size |-> 0]

\* position in cl.changes of Item(i); the slice is indexed from 0
Slot(cl, i) == ((cl.Begin + i) % cl.Capacity) + 1

Item(cl, i) == cl.changes[Slot(cl, i)]

First(cl) == Item(cl, 0)

Last(cl) == Item(cl, cl.Size - 1)

\* Next without Clear
changeListNextNoClear(cl) ==
  IF cl.Size = cl.Capacity
  THEN [cl EXCEPT !.Begin = (cl.Begin + 1) % cl.Capacity]
  ELSE [cl EXCEPT !.Size = cl.Size + 1]

\* changeList.Next: the list after the call; the new item is Last
changeListNext(cl) ==
  IF cl.Size = cl.Capacity
  THEN [cl EXCEPT !.changes[Slot(cl, 0)].value = NilAction,
                  !.Begin = (cl.Begin + 1) % cl.Capacity]
  ELSE [cl EXCEPT !.Size = cl.Size + 1]

\* rows.Scan(&c.Index, &c.Key, &c.Action, &c.PrevNodeModified) into Last
Scan(cl, row) ==
  [cl EXCEPT !.changes[Slot(cl, cl.Size - 1)] =
     [@ EXCEPT !.Index = row.index, !.Key = row.key, !.Action = row.action,
               !.PrevNodeModified = row.prev_node_modified]]

\* the loop over the rows of the SELECT, which come ordered by "index"
RECURSIVE fetchLoop(_, _)
fetchLoop(cl, rows) ==
  IF rows = {} THEN cl
  ELSE LET row == CHOOSE r \in rows : \A q \in rows : r.index <= q.index
       IN fetchLoop(Scan(changeListNext(cl), row), rows \ {row})

\* the result of a slice or an equality; a slice out of range panics
Ret(v) == [panic |-> FALSE, value |-> v]

SliceOutOfRange == [panic |-> TRUE, value |-> FALSE]

isParent(a, b) ==
  IF Len(a) + 1 > Len(b) THEN SliceOutOfRange
  ELSE Ret(SubSeq(b, 1, Len(a) + 1) = a \o <<"/">>)

NewWatch(idx, key, recursive) ==
  [Index |-> idx, Key |-> key, Recursive |-> recursive, result |-> <<>>,
   registered |-> Null, sets |-> 0, returned |-> <<>>, closed |-> FALSE]

Match(w, c) ==
  IF c.Index < w.Index THEN Ret(FALSE)
  ELSE IF c.Key = w.Key THEN Ret(TRUE)
  ELSE LET below(p) ==
             IF w.Recursive /\ (p.panic \/ p.value) THEN p
             ELSE IF c.Action \in {"delete", "expire"} THEN isParent(c.Key, w.Key)
             ELSE Ret(FALSE)
       IN below(IF w.Recursive THEN isParent(w.Key, c.Key) ELSE Ret(FALSE))

\* change.Value: what it returns, and the change with the result memoized
Value(c, db, t) ==
  IF c.value # NilAction THEN [err |-> NoErr, action |-> c.value, c |-> c]
  ELSE LET isDeleteAction == c.Action \in {"delete", "compareAndDelete", "expire"}
           wanted == IF isDeleteAction THEN {c.PrevNodeModified}
                     ELSE {c.Index, c.PrevNodeModified}
           has(m) == \E r \in db.nodes : r.key = c.Key /\ r.modified = m /\ m \in wanted
           at(m) == scanNode(CHOOSE r \in db.nodes : r.key = c.Key /\ r.modified = m, t)
           failed(err) == [err |-> err, action |-> NilAction, c |-> c]
           made(a) == [err |-> NoErr, action |-> a, c |-> [c EXCEPT !.value = a]]
       IN IF isDeleteAction /\ c.PrevNodeModified = Null THEN failed(ErrPrevNodeModified)
          ELSE IF c.PrevNodeModified # Null /\ ~has(c.PrevNodeModified)
            THEN failed(ErrChangeIndexCleared)
          ELSE IF isDeleteAction
            THEN made(ActionUpdate(c.Action,
                        [NilNode EXCEPT !.key = c.Key,
                                        !.createdIndex = at(c.PrevNodeModified).createdIndex,
                                        !.modifiedIndex = c.Index],
                        at(c.PrevNodeModified)))
          ELSE IF ~has(c.Index) THEN failed(ErrChangeIndexCleared)
          ELSE made(ActionUpdate(c.Action, at(c.Index),
                      IF c.PrevNodeModified # Null THEN at(c.PrevNodeModified)
                      ELSE NilNode))

\* watch.SetResult: the channel holds one result, a second one is dropped
SetResult(w, action, err) ==
  [w EXCEPT !.result = IF Len(@) < 1 THEN Append(@, [action |-> action, err |-> err])
                       ELSE @,
            !.sets = @ + 1]

\* the state of the watcher task during a handler: st.panic is a run-time panic
Task(c, w, panic) == [cw |-> c, ws |-> w, panic |-> panic]

checkChangeKeepWatch(st, i, w, db, t) ==
  LET c == Item(st.cw.changes, i)
      resolved(v, err) ==
        [st |-> [st EXCEPT !.cw.changes.changes[Slot(st.cw.changes, i)] = v.c,
                           !.ws[w] = SetResult(@, v.action, err)],
         hit |-> TRUE]
      valued(v) ==
        IF v.err = ErrChangeIndexCleared
        THEN IF st.ws[w].Index = 0 THEN [st |-> st, hit |-> FALSE]
             ELSE resolved(v, EventIndexCleared(c.Index + 1, st.ws[w].Index, st.cw.lastIndex))
        ELSE resolved(v, v.err)
      matched(m) ==
        IF m.panic THEN [st |-> [st EXCEPT !.panic = TRUE], hit |-> FALSE]
        ELSE IF ~m.value THEN [st |-> st, hit |-> FALSE]
        ELSE valued(Value(c, db, t))
  IN matched(Match(st.ws[w], c))

checkChange(st, i, w, db, t) ==
  LET c == Item(st.cw.changes, i)
      resolved(v, err) ==
        [st |-> [st EXCEPT !.cw.changes.changes[Slot(st.cw.changes, i)] = v.c,
                           !.ws[w] = SetResult(@, v.action, err),
                           !.cw.watches = @ \ {w}],
         hit |-> TRUE]
      valued(v) ==
        IF v.err = ErrChangeIndexCleared
        THEN IF st.ws[w].Index = 0 THEN [st |-> st, hit |-> FALSE]
             ELSE resolved(v, EventIndexCleared(c.Index + 1, st.ws[w].Index, st.cw.lastIndex))
        ELSE resolved(v, v.err)
      matched(m) ==
        IF m.panic THEN [st |-> [st EXCEPT !.panic = TRUE], hit |-> FALSE]
        ELSE IF ~m.value THEN [st |-> st, hit |-> FALSE]
        ELSE valued(Value(c, db, t))
  IN matched(Match(st.ws[w], c))

\* for i := 0; i < cw.changes.Size; i++ { if cw.checkChange(c, w) { break } }
RECURSIVE addWatchLoop(_, _, _, _, _)
addWatchLoop(st, w, i, db, t) ==
  IF i >= st.cw.changes.Size THEN st
  ELSE LET checked(r) ==
             IF r.hit \/ r.st.panic THEN r.st
             ELSE addWatchLoop(r.st, w, i + 1, db, t)
       IN checked(checkChange(st, i, w, db, t))

addWatchScanOnly(st, w, db, t) ==
  LET added(s) ==
        IF s.ws[w].Index <= 0 \/ s.cw.changes.Size = 0 THEN s
        ELSE addWatchLoop(s, w, 0, db, t)
  IN added([st EXCEPT !.cw.watches = @ \cup {w}, !.ws[w].registered = db.index])

\* registered is the store's index when the watch joins cw.watches
addWatch(st, w, db, t) ==
  LET added(s) ==
        IF s.ws[w].Index <= 0 \/ s.cw.changes.Size = 0 THEN s
        ELSE IF s.ws[w].Index < First(s.cw.changes).Index
          THEN [s EXCEPT !.ws[w] = SetResult(@, NilAction,
                                     EventIndexCleared(First(s.cw.changes).Index,
                                                       s.ws[w].Index, s.cw.lastIndex)),
                         !.cw.watches = @ \ {w}]
        ELSE addWatchLoop(s, w, 0, db, t)
  IN added([st EXCEPT !.cw.watches = @ \cup {w}, !.ws[w].registered = db.index])

\* for w := range cw.watches { cw.checkChange(c, w) }
RECURSIVE watchesLoop(_, _, _, _, _)
watchesLoop(st, i, pending, db, t) ==
  IF pending = {} \/ st.panic THEN st
  ELSE LET w == CHOOSE x \in pending : \A y \in pending : x <= y
       IN watchesLoop(checkChange(st, i, w, db, t).st, i, pending \ {w}, db, t)

\* for ; i < cw.changes.Size; i++
RECURSIVE refreshLoop(_, _, _, _)
refreshLoop(st, i, db, t) ==
  IF i >= st.cw.changes.Size \/ st.panic THEN st
  ELSE refreshLoop(watchesLoop(st, i, st.cw.watches, db, t), i + 1, db, t)

\* fetchSince: Begin sweeps and commits, the SELECT reads the rows after
\* lastIndex into the ring; count is the number of rows
fetchSince(cl, db, lastIndex, ord) ==
  LET begun(b) ==
        IF b.err # NoErr THEN [count |-> 0, cl |-> cl, db |-> b.db]
        ELSE LET rows == {c \in b.db.changes : c.index > lastIndex}
             IN [count |-> Cardinality(rows), cl |-> fetchLoop(cl, rows), db |-> b.db]
  IN begun(Begin(db, ord))

\* refresh: the watcher task after it, and the database the sweep leaves
refresh(st, db0, t, ord) ==
  LET fetched(f) ==
        IF f.count = 0 THEN [st |-> st, db |-> f.db]
        ELSE [st |-> refreshLoop([st EXCEPT !.cw.changes = f.cl,
                                            !.cw.lastIndex = Last(f.cl).Index],
                                 IF f.count < f.cl.Size THEN f.cl.Size - f.count ELSE 0,
                                 f.db, t),
              db |-> f.db]
  IN fetched(fetchSince(st.cw.changes, db0, st.cw.lastIndex, ord))

\* Watch: the watcher before Run; the ring has capacity MaxChanges in the
\* program, RingCapacity here
Watch ==
  [changes |-> newChangeList(RingCapacity), watches |-> {}, lastIndex |-> 0,
   pc |-> "start"]

----------------------------------------------------------------------------
(* The state machine: a client calling the store, and the passing of time.  *)
(* nodes, changes, index are the three tables; now is the database clock;   *)
(* last is the latest call with what it returned.                           *)

Call(op, key, value, ttl, recursive, cond) ==
  [op |-> op, key |-> key, value |-> value, ttl |-> ttl,
   recursive |-> recursive, cond |-> cond]

NoCall == Call("none", <<>>, <<>>, Null, FALSE, Always)

\* the response action of DeleteNode.Call, "" for the other calls
Returned(call, r, action) ==
  [call |-> call, err |-> r.err, node |-> r.node, prev |-> r.prev,
   index |-> r.index, kids |-> r.kids, action |-> action]

Commit(call, r, action) ==
  /\ nodes' = r.db.nodes
  /\ changes' = r.db.changes
  /\ index' = r.db.index
  /\ last' = Returned(call, r, action)
  /\ UNCHANGED <<now, cw, ws, txs>>

Database == Db(nodes, changes, index)

\* the two clients whose calls are in flight together
Clients == {1, 2}

\* a call of a client: pc is "idle" before it, "begun" between Begin and the
\* handler's transaction, "done" when the handler has returned
IdleTx == [pc |-> "idle", begunAfter |-> FALSE, err |-> NoErr, node |-> NilNode,
           index |-> 0]

NoTxs == [c \in Clients |-> IdleTx]

Init ==
  /\ nodes = {}
  /\ changes = {}
  /\ index = 0
  /\ now = 0
  /\ last = Returned(NoCall, Failed(Db({}, {}, 0), NoErr), "")
  /\ cw = Watch
  /\ ws = <<>>
  /\ txs = NoTxs

DoGet ==
  \E key \in Keys, recursive \in BOOLEAN, ord \in SweepOrders(Database, now) :
    Commit(Call("Get", key, <<>>, Null, recursive, Always),
           Get(Database, now, ord, key, recursive), "")

DoSet ==
  /\ index < MaxIndex
  /\ \E key \in Keys, value \in Values, cond \in SetConditions,
        ord \in SweepOrders(Database, now) :
       Commit(Call("Set", key, value, Null, FALSE, cond),
              set(Database, now, ord, key, value, FALSE, Null, cond), "")

DoSetTTL ==
  /\ index < MaxIndex
  /\ \E key \in Keys, value \in TTLValues, ttl \in TTLs \ {Null}, cond \in SetTTLConditions,
        ord \in SweepOrders(Database, now) :
       Commit(Call("SetTTL", key, value, ttl, FALSE, cond),
              set(Database, now, ord, key, value, FALSE, ttl, cond), "")

DoMkDir ==
  /\ index < MaxIndex
  /\ \E key \in Keys, ttl \in TTLs, cond \in MkDirConditions,
        ord \in SweepOrders(Database, now) :
       Commit(Call("MkDir", key, <<>>, ttl, FALSE, cond),
              set(Database, now, ord, key, <<>>, TRUE, ttl, cond), "")

DoCreateInOrder ==
  /\ index < MaxIndex
  /\ \E key \in OrderKeys, value \in TTLValues, ttl \in TTLs,
        ord \in SweepOrders(Database, now) :
       Commit(Call("CreateInOrder", key, value, ttl, FALSE, Always),
              CreateInOrder(Database, now, ord, key, value, ttl), "")

DoDelete ==
  /\ index < MaxIndex
  /\ \E key \in Keys, cond \in DeleteConditions, ord \in SweepOrders(Database, now) :
       LET r == Delete(Database, now, ord, key, cond)
       IN Commit(Call("Delete", key, <<>>, Null, FALSE, cond), r,
                 IF r.err = NoErr THEN DeleteActionName(cond) ELSE "")

DoRmDir ==
  /\ index < MaxIndex
  /\ \E key \in Keys, recursive \in BOOLEAN, cond \in RmDirConditions,
        ord \in SweepOrders(Database, now) :
       LET r == RmDir(Database, now, ord, key, recursive, cond)
       IN Commit(Call("RmDir", key, <<>>, Null, recursive, cond), r,
                 IF r.err = NoErr THEN DeleteActionName(cond) ELSE "")

Tick ==
  /\ now < MaxTime
  /\ now' = now + 1
  /\ UNCHANGED <<nodes, changes, index, last, cw, ws, txs>>

Next ==
  \/ DoGet
  \/ DoSet
  \/ DoSetTTL
  \/ DoMkDir
  \/ DoCreateInOrder
  \/ DoDelete
  \/ DoRmDir
  \/ Tick

Spec == Init /\ [][Next]_vars

----------------------------------------------------------------------------
(* The store with keys of up to three components.  A call that fails        *)
(* consumes no index, so it is issued whatever the index is.                *)

Issue(call, r, action) ==
  /\ index < MaxIndex \/ r.err # NoErr
  /\ Commit(call, r, action)

TreeSet ==
  \E key \in TreeKeys, ord \in SweepOrders(Database, now) :
    Issue(Call("Set", key, ValueX, Null, FALSE, Always),
          set(Database, now, ord, key, ValueX, FALSE, Null, Always), "")

TreeSetTTL ==
  \E key \in TreeKeys, ord \in SweepOrders(Database, now) :
    Issue(Call("SetTTL", key, ValueX, 1, FALSE, Always),
          set(Database, now, ord, key, ValueX, FALSE, 1, Always), "")

TreeMkDir ==
  \E key \in TreeKeys, ttl \in TTLs, ord \in SweepOrders(Database, now) :
    Issue(Call("MkDir", key, <<>>, ttl, FALSE, Always),
          set(Database, now, ord, key, <<>>, TRUE, ttl, Always), "")

TreeCreateInOrder ==
  \E key \in OrderKeys, ord \in SweepOrders(Database, now) :
    Issue(Call("CreateInOrder", key, ValueX, Null, FALSE, Always),
          CreateInOrder(Database, now, ord, key, ValueX, Null), "")

TreeRmDir ==
  \E key \in TreeKeys, recursive \in BOOLEAN, ord \in SweepOrders(Database, now) :
    LET r == RmDir(Database, now, ord, key, recursive, Always)
    IN Issue(Call("RmDir", key, <<>>, Null, recursive, Always), r,
             IF r.err = NoErr THEN DeleteActionName(Always) ELSE "")

NextTree ==
  \/ TreeSet
  \/ TreeSetTTL
  \/ TreeMkDir
  \/ TreeCreateInOrder
  \/ TreeRmDir
  \/ Tick

SpecTree == Init /\ [][NextTree]_vars

----------------------------------------------------------------------------
(* Get in its two transactions: Begin commits the sweep, then the handler   *)
(* opens the transaction it reads in.  The clock may advance in between.    *)
(* last.call.op = "GetBegin" is a Get between the two.                      *)

GetBegin ==
  /\ last.call.op # "GetBegin"
  /\ \E key \in Keys, recursive \in BOOLEAN, ord \in SweepOrders(Database, now) :
       LET begun(b) ==
             Commit(Call(IF b.err = NoErr THEN "GetBegin" ELSE "Get",
                         key, <<>>, Null, recursive, Always),
                    Failed(b.db, b.err), "")
       IN begun(Begin(Database, ord))

\* the handler from its query on: Get with nothing left for Begin to sweep
GetQuery ==
  /\ last.call.op = "GetBegin"
  /\ Commit(Call("Get", last.call.key, <<>>, Null, last.call.recursive, Always),
            Get(Database, now, <<>>, last.call.key, last.call.recursive), "")

StepSetTTL == last.call.op # "GetBegin" /\ DoSetTTL

StepMkDir == last.call.op # "GetBegin" /\ DoMkDir

NextSteps ==
  \/ GetBegin
  \/ GetQuery
  \/ StepSetTTL
  \/ StepMkDir
  \/ Tick

SpecSteps == Init /\ [][NextSteps]_vars

----------------------------------------------------------------------------
(* The watcher task with the store: Run's first refresh, the refresh of     *)
(* every tick, NextChange handing a watch to addWatch over the unbuffered   *)
(* channel, and the client taking the result.  A panic ends the process.    *)

WatchKeys == {KeyA, KeyA2}

WaitIndexes == 0..MaxIndex

Alive == cw.pc # "panic"

\* the task's state when a handler of the loop returns or panics
Resume(st) ==
  /\ cw' = [st.cw EXCEPT !.pc = IF st.panic THEN "panic" ELSE "loop"]
  /\ ws' = st.ws

Refreshed(r) ==
  /\ nodes' = r.db.nodes
  /\ changes' = r.db.changes
  /\ index' = r.db.index
  /\ Resume(r.st)
  /\ UNCHANGED <<now, last, txs>>

Run ==
  /\ cw.pc = "start"
  /\ \E ord \in SweepOrders(Database, now) :
       Refreshed(refresh(Task(cw, ws, FALSE), Database, now, ord))

Refresh ==
  /\ cw.pc = "loop"
  /\ \E ord \in SweepOrders(Database, now) :
       Refreshed(refresh(Task(cw, ws, FALSE), Database, now, ord))

NextChange ==
  /\ cw.pc = "loop"
  /\ Len(ws) < MaxWatches
  /\ \E key \in WatchKeys, recursive \in BOOLEAN, idx \in WaitIndexes :
       Resume(addWatch(Task(cw, Append(ws, NewWatch(idx, key, recursive)), FALSE),
                       Len(ws) + 1, Database, now))
  /\ UNCHANGED <<nodes, changes, index, now, last, txs>>

\* watch.Result: NextChange returns what the channel holds
WatchResult ==
  /\ Alive
  /\ \E w \in 1..Len(ws) :
       /\ ws[w].result # <<>>
       /\ ws' = [ws EXCEPT ![w].returned = ws[w].result, ![w].result = <<>>]
  /\ UNCHANGED <<nodes, changes, index, now, last, cw, txs>>

\* a call of the store while the process runs
Serve(r) ==
  /\ Alive
  /\ index < MaxIndex + 1
  /\ nodes' = r.db.nodes
  /\ changes' = r.db.changes
  /\ index' = r.db.index
  /\ UNCHANGED <<now, last, cw, ws, txs>>

WatchSet ==
  \E key \in WatchKeys, ord \in SweepOrders(Database, now) :
    Serve(set(Database, now, ord, key, ValueX, FALSE, Null, Always))

WatchSetTTL ==
  \E key \in {KeyA, KeyB}, ord \in SweepOrders(Database, now) :
    Serve(set(Database, now, ord, key, ValueX, FALSE, 1, Always))

WatchDelete ==
  \E key \in WatchKeys, ord \in SweepOrders(Database, now) :
    Serve(Delete(Database, now, ord, key, Always))

WatchRmDir ==
  \E ord \in SweepOrders(Database, now) :
    Serve(RmDir(Database, now, ord, KeyA, TRUE, Always))

NextWatch ==
  \/ Run
  \/ Refresh
  \/ NextChange
  \/ WatchResult
  \/ WatchSet
  \/ WatchSetTTL
  \/ WatchDelete
  \/ WatchRmDir
  \/ Tick

SpecWatch == Init /\ [][NextWatch]_vars

----------------------------------------------------------------------------
(* The client of a pending watch closing its connection.  GetNode.Call is   *)
(* inside NextChange, which is waiting in watch.Result; nothing in the      *)
(* handler or in the watcher reads the state of the connection.  The ticker *)
(* keeps firing and a result on the channel is taken.                       *)

CloseNotify ==
  /\ Alive
  /\ \E w \in 1..Len(ws) :
       /\ ws[w].returned = <<>>
       /\ ~ws[w].closed
       /\ ws' = [ws EXCEPT ![w].closed = TRUE]
  /\ UNCHANGED <<nodes, changes, index, now, last, cw, txs>>

NextCancel ==
  \/ Run
  \/ Refresh
  \/ NextChange
  \/ WatchResult
  \/ CloseNotify
  \/ WatchSet

SpecCancel ==
  /\ Init
  /\ [][NextCancel]_vars
  /\ WF_vars(Run)
  /\ WF_vars(Refresh)
  /\ WF_vars(WatchResult)

----------------------------------------------------------------------------
(* watch.Match as a function of the watch and the change: the watch is      *)
(* ws[1], the change is the only item of the ring.                          *)

KeyA2NoSlash == <<"/", "a", "2">>

MatchKeys == {Root, KeyA, KeyA2, KeyA23, KeyA2NoSlash}

MatchActions ==
  {"set", "create", "update", "compareAndSwap", "delete", "compareAndDelete", "expire"}

InitMatch ==
  /\ nodes = {}
  /\ changes = {}
  /\ index = 0
  /\ now = 0
  /\ last = [call |-> [op |-> "MatchInput"], match |-> Ret(FALSE)]
  /\ txs = NoTxs
  /\ \E key \in MatchKeys, recursive \in BOOLEAN, idx \in 0..MaxIndex :
       ws = <<NewWatch(idx, key, recursive)>>
  /\ \E key \in MatchKeys, action \in MatchActions, idx \in 1..MaxIndex :
       cw = [Watch EXCEPT !.changes =
               Scan(changeListNext(@),
                    [index |-> idx, key |-> key, action |-> action,
                     prev_node_modified |-> Null])]

DoMatch ==
  /\ last.call.op = "MatchInput"
  /\ last' = [call |-> [op |-> "Match"], match |-> Match(ws[1], First(cw.changes))]
  /\ UNCHANGED <<nodes, changes, index, now, cw, ws, txs>>

NextMatch == DoMatch

SpecMatch == InitMatch /\ [][NextMatch]_vars

----------------------------------------------------------------------------
(* Condition.Check as a function of its arguments *)

CheckConditions ==
  {Always, PrevExist(TRUE), PrevExist(FALSE), PrevValue(ValueX), PrevValue(ValueY)}
    \cup {PrevIndex(i) : i \in 1..MaxIndex}

\* the prior state of the key: absent, or a node with some value and index
CheckNodes ==
  {NilNode} \cup
  {[NilNode EXCEPT !.key = KeyA, !.value = v, !.createdIndex = m,
                   !.modifiedIndex = m, !.dir = d] :
     v \in Values \cup {<<>>}, m \in 1..MaxIndex, d \in BOOLEAN}

InitCheck ==
  /\ nodes = {}
  /\ changes = {}
  /\ index = 0
  /\ now = 0
  /\ cw = Watch
  /\ ws = <<>>
  /\ txs = NoTxs
  /\ \E cond \in CheckConditions, node \in CheckNodes, idx \in 0..MaxIndex :
       last = Returned(Call("CheckInput", KeyA, <<>>, Null, FALSE, cond),
                       Result(Db({}, {}, 0), NoErr, NilNode, node, idx, {}), "")

DoCheck ==
  /\ last.call.op = "CheckInput"
  /\ last' = [last EXCEPT !.call.op = "Check",
                          !.err = Check(last.call.cond, last.call.key, last.index, last.prev)]
  /\ UNCHANGED <<nodes, changes, index, now, cw, ws, txs>>

NextCheck == DoCheck

SpecCheck == InitCheck /\ [][NextCheck]_vars

----------------------------------------------------------------------------
(* Properties *)

SetOps == {"Set", "SetTTL", "MkDir"}
DeleteOps == {"Delete", "RmDir"}
Mutations == SetOps \cup DeleteOps \cup {"CreateInOrder"}

Succeeded(l) == l.err = NoErr

\* the live rows past their expiration
ExpiredLive == {r \in nodes : r.deleted = 0 /\ r.expiration # Null /\ r.expiration < now}

\* the rows the sweep of a call finds: a call on "/" returns before Begin
SweptBy(l) == IF l.err.errorCode = 107 THEN {} ELSE ExpiredLive

\* C1: the global index never decreases; a call advances it by one for every
\* expired node its sweep finds plus one if it is a successful mutation, and
\* nothing else (reads, failed mutations, empty sweeps, time) advances it.
C1_IndexAdvance ==
  [][/\ index' >= index
     /\ now' # now => index' = index
     /\ now' = now =>
          index' = index + Cardinality(SweptBy(last'))
                         + (IF last'.call.op \in Mutations /\ Succeeded(last') THEN 1 ELSE 0)
    ]_vars

\* a successful mutation whose sweep expired a node just before it
C1_Witness ==
  /\ last.call.op \in Mutations
  /\ Succeeded(last)
  /\ \E c \in changes : c.action = "expire" /\ c.index = last.index - 1

\* C2: every successful mutation and every individual expiration records
\* exactly one change row, whose index is the new modifiedIndex of the written
\* node, or the index at which the removed or expired node was tombstoned.
C2_OneChangePerMutation ==
  [][now' = now =>
       /\ \A r \in SweptBy(last') :
            \E c \in changes' \ changes :
              /\ c.action = "expire" /\ c.key = r.key
              /\ \A d \in changes' \ changes :
                   (d.action = "expire" /\ d.key = r.key) => d = c
              /\ [r EXCEPT !.deleted = c.index] \in nodes'
       /\ (last'.call.op \in SetOps \cup {"CreateInOrder"} /\ Succeeded(last')) =>
            \E c \in changes' \ changes :
              /\ c.action # "expire"
              /\ c.key = last'.node.key /\ c.index = last'.node.modifiedIndex
              /\ \A d \in changes' \ changes : d.action # "expire" => d = c
       /\ (last'.call.op \in DeleteOps /\ Succeeded(last')) =>
            \E c \in changes' \ changes :
              /\ c.action # "expire"
              /\ c.key = last'.call.key
              /\ \A d \in changes' \ changes : d.action # "expire" => d = c
              /\ \E r \in nodes' :
                   /\ r.key = c.key /\ r.deleted = c.index
                   /\ r.modified = last'.prev.modifiedIndex
       /\ ~(last'.call.op \in Mutations /\ Succeeded(last')) =>
            \A c \in changes' \ changes : c.action = "expire"
    ]_vars

\* C3: at most one live row per key.
C3_OneLiveRowPerKey ==
  \A r1, r2 \in nodes : (r1.deleted = 0 /\ r2.deleted = 0 /\ r1.key = r2.key) => r1 = r2

\* a key that was overwritten: a tombstone and a live row
C3_Witness ==
  \E r1, r2 \in nodes : r1.key = r2.key /\ r1.deleted = 0 /\ r2.deleted > 0

\* the proper ancestors of a key, root excluded
RECURSIVE Ancestors(_)
Ancestors(key) ==
  LET parent == splitKey(key)
  IN IF parent = Root \/ parent = <<>> THEN {} ELSE {parent} \cup Ancestors(parent)

\* C4: every live node has a live directory row at each proper ancestor, with
\* createdIndex no greater than its own.
C4_AncestorsLive ==
  \A r \in nodes : r.deleted = 0 =>
    \A a \in Ancestors(r.key) :
      \E d \in nodes : d.deleted = 0 /\ d.key = a /\ d.dir /\ d.created <= r.created

\* C5: a Set, SetTTL, MkDir, Delete or RmDir that returns an error, called when
\* no live node is past its expiration, leaves nodes, changes and index as
\* they were.
C5_FailedMutationChangesNothing ==
  [][(/\ now' = now
      /\ last'.call.op \in SetOps \cup DeleteOps
      /\ ~Succeeded(last')
      /\ ExpiredLive = {})
     => (nodes' = nodes /\ changes' = changes /\ index' = index)
    ]_vars

\* a non-recursive RmDir that failed after its UPDATE had tombstoned the subtree
C5_Witness ==
  /\ last.call.op = "RmDir"
  /\ last.err.errorCode = 108
  /\ \E r \in nodes : r.deleted = 0 /\ r.key = last.call.key /\ r.dir
  /\ \E r \in nodes : r.deleted = 0 /\ splitKey(r.key) = last.call.key

\* C6: an error returned after the increment carries the previous index, the
\* value of the global index once the transaction is rolled back.
C6_ErrorIndexIsPrevious ==
  (/\ last.call.op \in SetOps \cup DeleteOps
   /\ last.err.errorCode \in {100, 101, 102, 104, 105, 108})
  => last.err.index = index

\* C7: Always never fails; PrevExist(true) fails with NotFound exactly when the
\* node is absent; PrevExist(false) with KeyExists exactly when it is present;
\* PrevValue(s) with NotFound when absent and CompareFailed "[s != actual]"
\* exactly when present with another value; PrevIndex(i) with NotFound when
\* absent and CompareFailed exactly when present with another modifiedIndex.
C7_CheckTable ==
  last.call.op = "Check" =>
    LET c == last.call.cond
        n == last.prev
        e == last.err
        absent == n = NilNode
        notFound == [errorCode |-> 100, cause |-> last.call.key, index |-> last.index]
        mismatch(expected, actual) ==
          [errorCode |-> 101,
           cause |-> <<"[">> \o expected \o <<" ", "!", "=", " ">> \o actual \o <<"]">>,
           index |-> last.index]
    IN /\ c.kind = "Always" => e = NoErr
       /\ (c.kind = "PrevExist" /\ c.exist) =>
            e = IF absent THEN notFound ELSE NoErr
       /\ (c.kind = "PrevExist" /\ ~c.exist) =>
            e = IF absent THEN NoErr
                ELSE [errorCode |-> 105, cause |-> last.call.key, index |-> last.index]
       /\ c.kind = "PrevValue" =>
            e = IF absent THEN notFound
                ELSE IF n.value # c.value THEN mismatch(c.value, n.value)
                ELSE NoErr
       /\ c.kind = "PrevIndex" =>
            e = IF absent THEN notFound
                ELSE IF n.modifiedIndex # c.index
                  THEN mismatch(<<Digits[c.index + 1]>>, <<Digits[n.modifiedIndex + 1]>>)
                ELSE NoErr

\* PrevValue("x") checked against an absent node
C7_Witness ==
  /\ last.call.op = "Check"
  /\ last.call.cond = PrevValue(ValueX)
  /\ last.prev = NilNode
  /\ last.err.errorCode = 100

\* C8: the change row of a successful Set, SetTTL or MkDir has action set under
\* Always, update under PrevExist(true), create under PrevExist(false) and
\* compareAndSwap under PrevValue or PrevIndex.
C8_SetActionNames ==
  (last.call.op \in SetOps /\ Succeeded(last)) =>
    \E c \in changes :
      /\ c.index = last.index /\ c.key = last.call.key
      /\ \A d \in changes : d.index = last.index => d = c
      /\ c.action = CASE last.call.cond.kind = "Always" -> "set"
                      [] last.call.cond.kind = "PrevExist" ->
                           IF last.call.cond.exist THEN "update" ELSE "create"
                      [] OTHER -> "compareAndSwap"

\* a successful compare-and-swap on the previous value
C8_Witness ==
  /\ last.call.op \in SetOps
  /\ Succeeded(last)
  /\ last.call.cond.kind = "PrevValue"
  /\ last.prev # NilNode

\* C9: the change row of a successful Delete or RmDir, and the action of its
\* response, is delete under Always and compareAndDelete under PrevValue or
\* PrevIndex.
C9_DeleteActionNames ==
  (last.call.op \in DeleteOps /\ Succeeded(last)) =>
    LET expected == IF last.call.cond.kind = "Always" THEN "delete" ELSE "compareAndDelete"
    IN /\ last.action = expected
       /\ \E c \in changes :
            c.index = last.index /\ c.key = last.call.key /\ c.action = expected

\* some expired live row is the key or one of its ancestors
Expires(key) == \E r \in ExpiredLive : MatchesSubtree(key, r.key)

\* C10: a Get of k that follows a successful Set(k, v, cond) of index I, with
\* no expiration of k in between, returns the leaf k with value v and
\* modifiedIndex I, and I is the modifiedIndex of the node Set returned.
C10_SetThenGet ==
  [][(/\ now' = now
      /\ last.call.op = "Set" /\ Succeeded(last)
      /\ last'.call.op = "Get" /\ last'.call.key = last.call.key
      /\ ~Expires(last.call.key))
     => (/\ Succeeded(last')
         /\ last'.node.key = last.call.key
         /\ last'.node.value = last.call.value
         /\ ~last'.node.dir
         /\ last'.node.modifiedIndex = last.index
         /\ last.node.modifiedIndex = last.index)
    ]_vars

\* a Get of a leaf whose Set, an overwrite, is the latest change
C10_Witness ==
  /\ last.call.op = "Get"
  /\ Succeeded(last)
  /\ ~last.node.dir
  /\ last.node.modifiedIndex = index
  /\ last.node.expiration = Null
  /\ \E c \in changes :
       /\ c.index = index /\ c.key = last.call.key
       /\ c.action = "compareAndSwap" /\ c.prev_node_modified # Null

\* C11: Set, SetTTL, MkDir, Delete and RmDir on "/" fail with RootReadOnly
\* carrying the current index and leave nodes, changes and index as they
\* were; no row of nodes ever has the key "/".
C11_RootReadOnly ==
  /\ [](\A r \in nodes : r.key # Root)
  /\ [][(/\ now' = now
         /\ last'.call.op \in SetOps \cup DeleteOps
         /\ last'.call.key = Root)
        => (/\ last'.err = [errorCode |-> 107, cause |-> Root, index |-> index]
            /\ nodes' = nodes /\ changes' = changes /\ index' = index)
       ]_vars

\* a mutation of "/" refused while a live node is past its expiration
C11_Witness ==
  /\ last.call.op \in SetOps \cup DeleteOps
  /\ last.call.key = Root
  /\ last.err.errorCode = 107
  /\ ExpiredLive # {}

\* key is k or lies below k
IsUnder(key, k) == key = k \/ k \in Ancestors(key)

\* the precondition holds of the live row d
Passes(cond, d) ==
  \/ cond.kind = "Always"
  \/ cond.kind = "PrevExist" /\ cond.exist
  \/ cond.kind = "PrevValue" /\ cond.value = d.value
  \/ cond.kind = "PrevIndex" /\ cond.index = d.modified

\* C12: Set, SetTTL, MkDir and Delete on a key whose live, unexpired node is a
\* directory fail: with NotAFile for that key when the precondition passes
\* (Delete: in any case), else, for the Set family, with the precondition's
\* own error (KeyExists under PrevExist(false), CompareFailed under PrevValue
\* or PrevIndex); the directory row and its unexpired descendants stay live
\* and unchanged.
C12_DirectoryNotReplaced ==
  [][\A d \in nodes :
       (/\ now' = now
        /\ last'.call.op \in SetOps \cup {"Delete"}
        /\ last'.call.key = d.key
        /\ d.deleted = 0 /\ d.dir
        /\ ~Expires(d.key))
       => (/\ ~Succeeded(last')
           /\ (Passes(last'.call.cond, d) \/ last'.call.op = "Delete") =>
                (last'.err.errorCode = 102 /\ last'.err.cause = d.key)
           /\ (~Passes(last'.call.cond, d) /\ last'.call.op \in SetOps) =>
                last'.err.errorCode =
                  IF last'.call.cond.kind = "PrevExist" THEN 105 ELSE 101
           /\ \A r \in nodes :
                (r.deleted = 0 /\ IsUnder(r.key, d.key) /\ ~Expires(r.key))
                => r \in nodes')
    ]_vars

\* a Set, SetTTL or MkDir refused on a directory that has a live child
C12_Witness ==
  /\ last.call.op \in SetOps
  /\ last.err.errorCode = 102
  /\ \E d, r \in nodes : /\ d.deleted = 0 /\ d.dir /\ d.key = last.call.key
                         /\ r.deleted = 0 /\ splitKey(r.key) = d.key

\* C13: after a successful Set, SetTTL or MkDir of K at index I every proper
\* ancestor of K except root is a live directory: the row it had before the
\* call if that was a live, unexpired directory, else a row with
\* createdIndex = modifiedIndex = I.
C13_AncestorsCreated ==
  [][(now' = now /\ last'.call.op \in SetOps /\ Succeeded(last'))
     => \A a \in Ancestors(last'.call.key) :
          \E d \in nodes' :
            /\ d.deleted = 0 /\ d.key = a /\ d.dir
            /\ LET old == {e \in nodes : e.deleted = 0 /\ e.key = a /\ ~Expires(a)}
               IN IF old # {} THEN d \in old
                  ELSE d.created = last'.index /\ d.modified = last'.index
    ]_vars

\* a Set of /a/2/3 at index 2 that found /a and created /a/2
C13_Witness ==
  /\ last.call.op \in SetOps /\ Succeeded(last)
  /\ last.call.key = KeyA23
  /\ \E d, e \in nodes :
       /\ d.deleted = 0 /\ d.key = KeyA /\ d.dir /\ d.created < last.index
       /\ e.deleted = 0 /\ e.key = KeyA2 /\ e.dir /\ e.created = last.index

\* the live, unexpired leaves at proper ancestors of key
LeafAncestors(key) ==
  {l \in nodes : /\ l.deleted = 0 /\ ~l.dir /\ ~Expires(l.key)
                 /\ l.key \in Ancestors(key)}

LiveBelow(key) ==
  {r \in nodes : r.deleted = 0 /\ ~Expires(r.key) /\ key \in Ancestors(r.key)}

\* C15: RmDir(K, recursive = false) (precondition Always) on a directory with
\* a live descendant fails with DirectoryNotEmpty, K and its descendants stay
\* live and no change row or index is consumed; on a leaf or an empty
\* directory it succeeds.
C15_RmDirNonRecursive ==
  [][\A k \in nodes :
       (/\ now' = now
        /\ last'.call.op = "RmDir" /\ ~last'.call.recursive
        /\ last'.call.cond = Always
        /\ last'.call.key = k.key
        /\ k.deleted = 0 /\ ~Expires(k.key))
       => IF k.dir /\ LiveBelow(k.key) # {}
          THEN /\ last'.err.errorCode = 108
               /\ k \in nodes'
               /\ LiveBelow(k.key) \subseteq nodes'
               /\ \A c \in changes' \ changes : c.action = "expire"
               /\ index' = index + Cardinality(ExpiredLive)
          ELSE Succeeded(last')
    ]_vars

\* C16: a successful RmDir(K, recursive = true) at index I tombstones K and
\* every live descendant of K with deleted = I, so that a Get of K or of a
\* former descendant returns NotFound, and records exactly one change row,
\* for K.
C16_RmDirRecursive ==
  [][(/\ now' = now
      /\ last'.call.op = "RmDir" /\ last'.call.recursive
      /\ Succeeded(last'))
     => LET K == last'.call.key
            I == last'.index
            removed == {r \in nodes : r.deleted = 0 /\ ~Expires(r.key) /\ IsUnder(r.key, K)}
            after == Db(nodes', changes', index')
        IN /\ \A r \in removed : [r EXCEPT !.deleted = I] \in nodes'
           /\ \A r \in nodes' : r.deleted = 0 => ~IsUnder(r.key, K)
           /\ \A r \in removed : \A ord \in SweepOrders(after, now') :
                Get(after, now', ord, r.key, FALSE).err.errorCode = 100
           /\ \E c \in changes' \ changes :
                /\ c.key = K /\ c.index = I /\ c.action # "expire"
                /\ \A d \in changes' \ changes : d.action # "expire" => d = c
    ]_vars

\* a recursive RmDir of /a that removed /a, /a/2 and /a/2/3
C16_Witness ==
  /\ last.call.op = "RmDir" /\ last.call.recursive /\ Succeeded(last)
  /\ last.call.key = KeyA
  /\ \A k \in TreeKeys : \E r \in nodes : r.key = k /\ r.deleted = last.index

\* C17: a successful CreateInOrder(K, v, ttl) consumes an index I greater
\* than every index used before, creates the leaf K/<I> (I in decimal) with
\* createdIndex = modifiedIndex = I and value v, and records a create change
\* at I; a call that follows another on the same K gets a greater suffix.
C17_CreateInOrder ==
  [][(/\ now' = now
      /\ last'.call.op = "CreateInOrder"
      /\ Succeeded(last'))
     => LET I == index'
            key == last'.call.key \o <<"/", Digits[I + 1]>>
        IN /\ I > index
           /\ \A r \in nodes : r.created < I /\ r.modified < I /\ r.deleted < I
           /\ last'.index = I
           /\ last'.node.key = key
           /\ last'.node.value = last'.call.value
           /\ last'.node.createdIndex = I /\ last'.node.modifiedIndex = I
           /\ ~last'.node.dir
           /\ \E r \in nodes' :
                /\ r.deleted = 0 /\ r.key = key /\ ~r.dir
                /\ r.value = last'.call.value
                /\ r.created = I /\ r.modified = I
           /\ \E c \in changes' : c.index = I /\ c.key = key /\ c.action = "create"
           /\ (/\ last.call.op = "CreateInOrder" /\ Succeeded(last)
               /\ last.call.key = last'.call.key) => I > last.index
    ]_vars

\* two calls on /a: /a/1 and then /a/2
C17_Witness ==
  /\ last.call.op = "CreateInOrder" /\ Succeeded(last)
  /\ last.node.key = KeyA2
  /\ \E r \in nodes : r.key = KeyA \o <<"/", "1">> /\ r.created = 1 /\ ~r.dir

\* C18: after a successful CreateInOrder(K, ...) on a store where K did not
\* exist, K is a live directory and Get(K, recursive = false) succeeds and
\* lists the created child.
C18_ParentCreated ==
  [][(/\ now' = now
      /\ last'.call.op = "CreateInOrder"
      /\ Succeeded(last')
      /\ \A r \in nodes : ~(r.deleted = 0 /\ r.key = last'.call.key))
     => LET K == last'.call.key
            after == Db(nodes', changes', index')
        IN /\ \E d \in nodes' : d.deleted = 0 /\ d.key = K /\ d.dir
           /\ \A ord \in SweepOrders(after, now') :
                LET g == Get(after, now', ord, K, FALSE)
                IN /\ g.err = NoErr
                   /\ g.node.dir
                   /\ \E n \in g.kids : n.key = last'.node.key
    ]_vars

\* C19: a Get never returns a node, or a child in its listing, whose
\* expiration lies in the past, and returns NotFound for a key whose live
\* node is past its expiration.
C19_NoExpiredRead ==
  [][(now' = now /\ last'.call.op = "Get")
     => /\ Succeeded(last') =>
             \A n \in {last'.node} \cup last'.kids :
               n.expiration = Null \/ ~(n.expiration < now')
        /\ (\E r \in ExpiredLive : r.key = last'.call.key) =>
             last'.err.errorCode = 100
    ]_vars

\* C20: a sweep that finds n >= 1 expired live nodes records exactly n expire
\* changes, with the n indices that follow the global index, in the order of
\* the nodes' expiration; each expired node is tombstoned with deleted equal
\* to the index of its own expire change, each other live node below one
\* with the index of such an ancestor's change, and the global index is left
\* at the last index used (one more when a mutation follows in the call).
C20_SweepIndices ==
  [][(now' = now /\ SweptBy(last') # {})
     => LET S == SweptBy(last')
            n == Cardinality(S)
            E == {c \in changes' \ changes : c.action = "expire"}
            own(r) == {c \in E : c.key = r.key}
        IN /\ Cardinality(E) = n
           /\ {c.index : c \in E} = (index + 1)..(index + n)
           /\ \A r \in S :
                /\ Cardinality(own(r)) = 1
                /\ \A c \in own(r) : [r EXCEPT !.deleted = c.index] \in nodes'
           /\ \A r1, r2 \in S : \A c1 \in own(r1), c2 \in own(r2) :
                r1.expiration < r2.expiration => c1.index < c2.index
           /\ \A q \in nodes :
                (q.deleted = 0 /\ q \notin S /\ \E r \in S : IsUnder(q.key, r.key))
                => \E r \in S : \E c \in own(r) :
                     IsUnder(q.key, r.key) /\ [q EXCEPT !.deleted = c.index] \in nodes'
           /\ index' = index + n
                         + (IF last'.call.op \in Mutations /\ Succeeded(last') THEN 1 ELSE 0)
    ]_vars

StartsWith(s, p) == Len(p) <= Len(s) /\ SubSeq(s, 1, Len(p)) = p

\* C21: Match returns true exactly when the change's index is not below the
\* watch's index and the keys are equal, or the watch is recursive and the
\* change's key starts with the watch's key and "/", or the change is a
\* delete or an expire and the watch's key starts with the change's key and
\* "/"; for every other watch and change it returns false.
C21_Match ==
  last.call.op = "Match"
  => LET w == ws[1]
         c == First(cw.changes)
     IN /\ ~last.match.panic
        /\ last.match.value =
             /\ c.Index >= w.Index
             /\ \/ c.Key = w.Key
                \/ w.Recursive /\ StartsWith(c.Key, w.Key \o <<"/">>)
                \/ c.Action \in {"delete", "expire"} /\ StartsWith(w.Key, c.Key \o <<"/">>)

\* the change matches the watch, as C21 states it
Matches(w, c) ==
  /\ c.Index >= w.Index
  /\ \/ c.Key = w.Key
     \/ w.Recursive /\ StartsWith(c.Key, w.Key \o <<"/">>)
     \/ c.Action \in {"delete", "expire"} /\ StartsWith(w.Key, c.Key \o <<"/">>)

\* positions of the ring, oldest first, whose change matches the watch
MatchingItems(cl, w) == {i \in 0..(cl.Size - 1) : Matches(w, Item(cl, i))}

\* the watch has been resolved with the update of the change c
ResolvedWith(w, c) ==
  /\ w.result \o w.returned = <<[action |-> w.result[1].action, err |-> NoErr]>>
  /\ w.result[1].action.action = c.Action
  /\ w.result[1].action.node.key = c.Key
  /\ w.result[1].action.node.modifiedIndex = c.Index

\* C22: a watch with a positive index, not below the oldest index of the
\* ring, that is added while the ring holds changes matching it is resolved
\* in the same step with the oldest of them.
C22_OldestMatch ==
  [][(Len(ws') = Len(ws) + 1 /\ ws'[Len(ws')].Index > 0
      /\ cw.changes.Size > 0 /\ ws'[Len(ws')].Index >= First(cw.changes).Index
      /\ MatchingItems(cw.changes, ws'[Len(ws')]) # {})
     => LET w == ws'[Len(ws')]
            M == MatchingItems(cw.changes, w)
            oldest == CHOOSE i \in M : \A j \in M : i <= j
        IN /\ cw'.pc = "loop"
           /\ Len(ws') \notin cw'.watches
           /\ ResolvedWith(w, Item(cw.changes, oldest))
    ]_vars

\* what SetResult put on the watch's channel, taken by the client or not
Results(w) == w.result \o w.returned

\* C23: a watch with index 0 is resolved only by a change made after it was
\* registered: the change's index is above the store's index at registration.
C23_FutureOnly ==
  \A i \in 1..Len(ws) :
    (ws[i].Index = 0 /\ Results(ws[i]) # <<>>)
    => /\ Results(ws[i])[1].err = NoErr
       /\ Results(ws[i])[1].action.node.modifiedIndex > ws[i].registered

C25_AtMostOneResult ==
  \A i \in 1..Len(ws) :
    /\ ws[i].sets <= 1
    /\ Len(Results(ws[i])) = ws[i].sets
    /\ ws[i].sets = 1 => i \notin cw.watches

\* a resolved watch, and a later change in the ring that matches it
C25_Witness ==
  \E i \in 1..Len(ws), j \in 0..(cw.changes.Size - 1) :
    /\ cw.pc = "loop"
    /\ ws[i].sets = 1
    /\ ws[i].returned # <<>>
    /\ ws[i].returned[1].err = NoErr
    /\ Matches(ws[i], Item(cw.changes, j))
    /\ Item(cw.changes, j).Index > ws[i].returned[1].action.node.modifiedIndex
    /\ Item(cw.changes, j).Index > ws[i].registered

\* a row of "changes" as the change fetchSince scans it into
Scanned(row) ==
  [Index |-> row.index, Key |-> row.key, Action |-> row.action,
   PrevNodeModified |-> row.prev_node_modified, value |-> NilAction]

\* the committed changes made after the watch was registered that match it
MatchingSince(w) == {c \in changes : c.index > w.registered /\ Matches(w, Scanned(c))}

\* C26: no matching change committed after a watch's registration is skipped:
\* a watch still pending has no such change among those the watcher has read,
\* and a watch resolved with such a change is resolved with the first of them.
C26_FirstChangeAfter ==
  \A i \in 1..Len(ws) :
    /\ i \in cw.watches => \A c \in MatchingSince(ws[i]) : c.index > cw.lastIndex
    /\ (Results(ws[i]) # <<>> /\ Results(ws[i])[1].err = NoErr
        /\ Results(ws[i])[1].action.node.modifiedIndex > ws[i].registered)
       => \A c \in MatchingSince(ws[i]) :
            c.index >= Results(ws[i])[1].action.node.modifiedIndex

\* the first committed change, by index, that matches the watch
FirstMatching(w) ==
  {c \in changes : /\ Matches(w, Scanned(c))
                   /\ \A d \in changes : Matches(w, Scanned(d)) => c.index <= d.index}

\* C27: a watch on K with an index above K's modifiedIndex, registered before
\* K expires, whose first matching change is that expire, is resolved, once
\* the watcher has read the change, with action expire, prevNode the expired
\* node and a node of K with prevNode's createdIndex and the change's index.
C27_ExpireUpdate ==
  \A i \in 1..Len(ws) : \A c \in FirstMatching(ws[i]) :
    (/\ c.action = "expire"
     /\ c.key = ws[i].Key
     /\ c.prev_node_modified < ws[i].Index
     /\ ws[i].registered < c.index
     /\ c.index <= cw.lastIndex)
    => /\ Results(ws[i]) # <<>>
       /\ Results(ws[i])[1].err = NoErr
       /\ Results(ws[i])[1].action.action = "expire"
       /\ Results(ws[i])[1].action.node =
            [NilNode EXCEPT !.key = c.key,
                            !.createdIndex = Results(ws[i])[1].action.prev.createdIndex,
                            !.modifiedIndex = c.index]
       /\ \E r \in nodes :
            /\ r.key = c.key
            /\ r.modified = c.prev_node_modified
            /\ r.deleted = c.index
            /\ Results(ws[i])[1].action.prev.key = r.key
            /\ Results(ws[i])[1].action.prev.value = r.value
            /\ Results(ws[i])[1].action.prev.createdIndex = r.created
            /\ Results(ws[i])[1].action.prev.modifiedIndex = r.modified

\* the changes of Delete and RmDir: they are no expire and wrote no node row
Removals ==
  {c \in changes : /\ c.action # "expire"
                   /\ c.prev_node_modified # Null
                   /\ ~\E r \in nodes : r.key = c.key /\ r.modified = c.index}

\* C28: a watch on K that is pending when K or an ancestor of K is removed by
\* Delete or RmDir is resolved, once the watcher has read the change, and
\* unless an earlier change resolved it, with a delete update of that change.
C28_RemovalSeen ==
  \A i \in 1..Len(ws) : \A c \in Removals :
    (/\ c.key = ws[i].Key \/ StartsWith(ws[i].Key, c.key \o <<"/">>)
     /\ c.index >= ws[i].Index
     /\ ws[i].registered < c.index
     /\ c.index <= cw.lastIndex)
    => /\ Results(ws[i]) # <<>>
       /\ \/ /\ Results(ws[i])[1].err = NoErr
             /\ Results(ws[i])[1].action.node.modifiedIndex < c.index
          \/ /\ Results(ws[i])[1].err.errorCode = 401
             /\ Results(ws[i])[1].err.index < c.index
          \/ /\ Results(ws[i])[1].err = NoErr
             /\ Results(ws[i])[1].action.action = "delete"
             /\ Results(ws[i])[1].action.node.key = c.key
             /\ Results(ws[i])[1].action.node.modifiedIndex = c.index

\* C29: once the client of a pending watch has closed its connection, the
\* watch leaves cw.watches and its NextChange call ends.
C29_CloseCancels ==
  \A w \in 1..MaxWatches :
    (IF w <= Len(ws) THEN ws[w].closed /\ w \in cw.watches ELSE FALSE)
      ~> (IF w <= Len(ws) THEN w \notin cw.watches /\ ws[w].returned # <<>> ELSE FALSE)

----------------------------------------------------------------------------
(* Two clients calling Set on the same key at once.  Every transaction of   *)
(* the store starts with incrementIndex, an UPDATE of the single row of     *)
(* "index", whose row lock is held until the transaction ends: a second     *)
(* transaction waits in its own incrementIndex until the first has          *)
(* committed or rolled back.  A call is therefore two steps, the sweep      *)
(* transaction of Begin and the handler's transaction, and the calls        *)
(* interleave between them.  Another client's SetTTL and the clock give     *)
(* the key its earlier contents.                                            *)

ClientValue(c) == IF c = 1 THEN ValueX ELSE ValueY

Stored(db) ==
  /\ nodes' = db.nodes
  /\ changes' = db.changes
  /\ index' = db.index
  /\ UNCHANGED <<now, last, cw, ws>>

\* Begin of set: purgeExpired in its own transaction
ConcBegin(c) ==
  /\ txs[c].pc = "idle"
  /\ index < MaxIndex + 1
  /\ \E ord \in SweepOrders(Database, now) :
       LET begun(b) ==
             /\ Stored(b.db)
             /\ txs' = [txs EXCEPT ![c] =
                          IF b.err # NoErr THEN [IdleTx EXCEPT !.pc = "done", !.err = b.err]
                          ELSE [IdleTx EXCEPT !.pc = "begun",
                                              !.begunAfter = \E d \in Clients : txs[d].pc = "begun"]]
       IN begun(Begin(Database, ord))

\* the transaction of set: set with nothing left for Begin to sweep
ConcSet(c) ==
  /\ txs[c].pc = "begun"
  /\ LET returned(r) ==
           /\ Stored(r.db)
           /\ txs' = [txs EXCEPT ![c] = [@ EXCEPT !.pc = "done", !.err = r.err,
                                                  !.node = r.node, !.index = r.index]]
     IN returned(set(Database, now, <<>>, KeyA, ClientValue(c), FALSE, Null, Always))

\* both handlers have answered
ConcReturn ==
  /\ \A c \in Clients : txs[c].pc = "done"
  /\ txs' = NoTxs
  /\ UNCHANGED <<nodes, changes, index, now, last, cw, ws>>

ConcSetTTL ==
  \E ord \in SweepOrders(Database, now) :
    Serve(set(Database, now, ord, KeyA, ValueX, FALSE, 1, Always))

NextConc ==
  \/ \E c \in Clients : ConcBegin(c)
  \/ \E c \in Clients : ConcSet(c)
  \/ ConcReturn
  \/ ConcSetTTL
  \/ Tick

SpecConc == Init /\ [][NextConc]_vars

LiveRowsOf(key) == {n \in nodes : n.key = key /\ n.deleted = 0}

Recorded(tx) ==
  \E ch \in changes : ch.index = tx.index /\ ch.key = KeyA /\ ch.action = "set"

\* the two calls have ended: c is the later of the two to commit
BothSet(c, d) ==
  /\ txs[c].err = NoErr /\ txs[d].err = NoErr
  /\ txs[c].index # txs[d].index
  /\ txs[c].node.modifiedIndex = txs[c].index
  /\ txs[d].node.modifiedIndex = txs[d].index
  /\ Recorded(txs[c]) /\ Recorded(txs[d])
  /\ LET latest == IF txs[c].index > txs[d].index THEN c ELSE d
     IN /\ Cardinality(LiveRowsOf(KeyA)) = 1
        /\ \A n \in LiveRowsOf(KeyA) :
             n.value = ClientValue(latest) /\ n.modified = txs[latest].index

\* C30: two unconditional Set calls on the same key whose transactions
\* interleave in any way both succeed with distinct indices and both record
\* a change row; when the second of them has committed the key has exactly
\* one live row, holding the value of the call with the greater modifiedIndex
C30_ConcurrentSets ==
  [][\A c, d \in Clients :
       (c # d /\ txs[c].pc = "begun" /\ txs'[c].pc = "done" /\ txs[d].pc = "done")
         => BothSet(c, d)']_vars

\* client 2 began while client 1 was between Begin and its transaction and
\* committed first; the key holds client 1's value
C30_Witness ==
  /\ txs[1].pc = "done" /\ txs[2].pc = "done"
  /\ txs[2].begunAfter
  /\ txs[1].err = NoErr /\ txs[2].err = NoErr
  /\ txs[2].index < txs[1].index
  /\ \E n \in LiveRowsOf(KeyA) : n.value = ValueX /\ n.modified = txs[1].index

----------------------------------------------------------------------------
(* The order in which mutations become visible.  incrementIndex is the      *)
(* first statement of every transaction that writes, and of the sweep of    *)
(* every Begin: its UPDATE locks the row of "index" until the transaction   *)
(* commits or rolls back.  A call of Set is Begin, then incrementIndex      *)
(* (pc "locked": the new index is taken and not yet visible), then the      *)
(* rest of the transaction and its commit.  The watcher's refresh is the    *)
(* Begin of fetchSince (cw.pc "fetch" after it), then its SELECT, which     *)
(* takes no lock and runs while a writer's transaction is open.             *)

RowLocked == \E c \in Clients : txs[c].pc = "locked"

OrderBegin(c) == ~RowLocked /\ ConcBegin(c)

\* incrementIndex of set: waits for the row lock, then holds it
OrderLock(c) ==
  /\ txs[c].pc = "begun"
  /\ ~RowLocked
  /\ txs' = [txs EXCEPT ![c] = [@ EXCEPT !.pc = "locked",
                                         !.index = incrementIndex(Database).index]]
  /\ UNCHANGED <<nodes, changes, index, now, last, cw, ws>>

\* the statements of set after incrementIndex, and tx.Commit
OrderCommit(c) ==
  /\ txs[c].pc = "locked"
  /\ LET returned(r) ==
           /\ Stored(r.db)
           /\ txs' = [txs EXCEPT ![c] = [@ EXCEPT !.pc = "done", !.err = r.err,
                                                  !.node = r.node, !.index = r.index]]
     IN returned(set(Database, now, <<>>, KeyA, ClientValue(c), FALSE, Null, Always))

OrderSetTTL == ~RowLocked /\ ConcSetTTL

\* store.Begin of fetchSince: the sweep, in its own transaction
FetchBegin ==
  /\ cw.pc \in {"start", "loop"}
  /\ ~RowLocked
  /\ index < MaxIndex + 2
  /\ \E ord \in SweepOrders(Database, now) :
       LET begun(b) ==
             /\ nodes' = b.db.nodes
             /\ changes' = b.db.changes
             /\ index' = b.db.index
             /\ cw' = [cw EXCEPT !.pc = IF b.err = NoErr THEN "fetch" ELSE "loop"]
             /\ UNCHANGED <<now, last, ws, txs>>
       IN begun(Begin(Database, ord))

\* the SELECT of fetchSince and the rest of refresh
FetchQuery ==
  /\ cw.pc = "fetch"
  /\ Refreshed(refresh(Task(cw, ws, FALSE), Database, now, <<>>))

NextOrder ==
  \/ \E c \in Clients : OrderBegin(c)
  \/ \E c \in Clients : OrderLock(c)
  \/ \E c \in Clients : OrderCommit(c)
  \/ ConcReturn
  \/ OrderSetTTL
  \/ FetchBegin
  \/ FetchQuery
  \/ Tick

SpecOrder == Init /\ [][NextOrder]_vars

\* (key, modified) of the node rows
RowIds(rows) == {<<n.key, n.modified>> : n \in rows}

\* C31: mutations become visible in index order: every change row, node row
\* and tombstone that a commit makes visible carries an index above the
\* committed index, hence above every index a reader has observed, and the
\* watcher's lastIndex never passes the committed index
C31_IndexOrder ==
  [][/\ \A ch \in changes' \ changes :
          ch.index > index /\ ch.index > cw.lastIndex /\ ch.index <= index'
     /\ \A n \in nodes' :
          /\ <<n.key, n.modified>> \notin RowIds(nodes) => n.modified > index
          /\ (n.deleted # 0 /\ n \notin nodes) => n.deleted > index
     /\ changes \subseteq changes'
     /\ cw'.lastIndex <= index']_vars

\* a writer holds an index that is not yet visible while the watcher has read
\* every committed change, and the watcher's SELECT is about to run
C31_Witness ==
  /\ \E c \in Clients : txs[c].pc = "locked" /\ txs[c].index = cw.lastIndex + 1
  /\ cw.lastIndex >= 1
  /\ cw.lastIndex = index
  /\ cw.pc = "fetch"

\* C32: a Set or SetTTL that overwrites a live leaf at index I' tombstones
\* the prior row with deleted = I' and leaves a live row with modifiedIndex
\* I' and the prior node's createdIndex; without a prior node createdIndex is I'
C32_CreatedPreserved ==
  (last.call.op \in {"Set", "SetTTL"} /\ last.err = NoErr) =>
    /\ last.node.modifiedIndex = last.index
    /\ \E n \in nodes : /\ n.key = last.call.key /\ n.deleted = 0
                        /\ n.modified = last.index
                        /\ n.created = last.node.createdIndex
    /\ IF last.prev = NilNode THEN last.node.createdIndex = last.index
       ELSE /\ last.node.createdIndex = last.prev.createdIndex
            /\ \E n \in nodes : /\ n.key = last.call.key
                                /\ n.modified = last.prev.modifiedIndex
                                /\ n.deleted = last.index

----------------------------------------------------------------------------
(* The store after MaxChanges mutations, where recordChange starts to       *)
(* prune.  History(n) is the database after n calls Set("/a", "x") on an    *)
(* empty store: n change rows, n - 1 tombstones and one live row.           *)

History(n) ==
  Db({[NodeRow(KeyA, ValueX, FALSE, i, Null) EXCEPT
         !.deleted = IF i < n THEN i + 1 ELSE 0] : i \in 1..n},
     {[index |-> i, key |-> KeyA, action |-> "set",
       prev_node_modified |-> IF i = 1 THEN Null ELSE i - 1] : i \in 1..n},
     n)

InitPrune ==
  /\ nodes = History(MaxChanges).nodes
  /\ changes = History(MaxChanges).changes
  /\ index = History(MaxChanges).index
  /\ now = 0
  /\ last = Returned(NoCall, Failed(Db({}, {}, 0), NoErr), "")
  /\ cw = Watch
  /\ ws = <<>>
  /\ txs = NoTxs

Paced(call, r, action) ==
  /\ index < MaxChanges + MaxIndex + 1
  /\ Commit(call, r, action)

PruneSet ==
  \E key \in {KeyA, KeyB}, value \in Values, ord \in SweepOrders(Database, now) :
    Paced(Call("Set", key, value, Null, FALSE, Always),
          set(Database, now, ord, key, value, FALSE, Null, Always), "")

PruneSetTTL ==
  \E ord \in SweepOrders(Database, now) :
    Paced(Call("SetTTL", KeyB, ValueX, 1, FALSE, Always),
          set(Database, now, ord, KeyB, ValueX, FALSE, 1, Always), "")

PruneDelete ==
  \E key \in {KeyA, KeyB}, cond \in DeleteConditions, ord \in SweepOrders(Database, now) :
    LET r == Delete(Database, now, ord, key, cond)
    IN Paced(Call("Delete", key, <<>>, Null, FALSE, cond), r,
             IF r.err = NoErr THEN DeleteActionName(cond) ELSE "")

NextPrune ==
  \/ PruneSet
  \/ PruneSetTTL
  \/ PruneDelete
  \/ Tick

SpecPrune == InitPrune /\ [][NextPrune]_vars

\* a change row names the node row (key, modified)
Names(c, n) ==
  /\ n.key = c.key
  /\ \/ c.prev_node_modified = n.modified
     \/ (c.action \notin {"delete", "compareAndDelete", "expire"} /\ c.index = n.modified)

\* C33: after every committed mutation the change table holds at most
\* MaxChanges rows, and every tombstoned node row that remains is named by a
\* change row that remains
C33_PrunedTables ==
  /\ Cardinality(changes) <= MaxChanges
  /\ \A n \in nodes : n.deleted # 0 => \E c \in changes : Names(c, n)

NodeRowAt(key, modified) == \E n \in nodes : n.key = key /\ n.modified = modified

\* C34: in every reachable state the node rows that a change row names
\* exist: for a non-delete action the row (key, modified = index) and, when
\* prev_node_modified is set, the row (key, modified = prev_node_modified);
\* for delete, compareAndDelete and expire the row (key, prev_node_modified)
C34_ChangeRowsResolve ==
  \A c \in changes :
    IF c.action \in {"delete", "compareAndDelete", "expire"}
    THEN NodeRowAt(c.key, c.prev_node_modified)
    ELSE /\ NodeRowAt(c.key, c.index)
         /\ c.prev_node_modified # Null => NodeRowAt(c.key, c.prev_node_modified)

ChangesAt(i) == {c \in changes : c.index = i}

OldestChange == CHOOSE i \in {c.index : c \in changes} : \A c \in changes : i <= c.index

\* C35: the recorded change indices are gap-free: every index from the
\* oldest surviving change row up to the global index has exactly one change
\* row, whatever calls succeeded, failed, or swept
C35_GapFree ==
  /\ changes = {} => index = 0
  /\ changes # {} => \A i \in OldestChange..index : Cardinality(ChangesAt(i)) = 1
  /\ \A c \in changes : c.index <= index

\* a call has failed after its Begin swept a node and its descendant, and the
\* two expire rows carry consecutive indices up to the global index
C35_Witness ==
  /\ last.err # NoErr
  /\ \E c1, c2 \in changes :
       /\ c1.action = "expire" /\ c2.action = "expire"
       /\ c2.index = c1.index + 1
       /\ c2.index = index
  /\ \E c \in changes : c.index = 1 /\ c.action # "expire"

----------------------------------------------------------------------------
(* The change list on its own: any sequence of Next and Pop on a list of    *)
(* capacity RingCapacity.  Every slot that Next hands out is written with   *)
(* the number of the call (last.n), and last.items is the list the calls    *)
(* should leave: the numbers written, oldest first, without the overwritten *)
(* and the popped ones.                                                     *)

changeListPopNoTest(cl) == [cl EXCEPT !.Size = cl.Size - 1]

changeListPop(cl) ==
  IF cl.Size = 0 THEN cl
  ELSE [cl EXCEPT !.Size = cl.Size - 1]

RingRows(n) ==
  {[index |-> n, key |-> key, action |-> action, prev_node_modified |-> Null] :
     key \in {KeyA, KeyB}, action \in {"set", "delete"}}

RingCall(op, items, n, before, handed) ==
  [call |-> [op |-> op], items |-> items, n |-> n, before |-> before, handed |-> handed]

InitRing ==
  /\ nodes = {}
  /\ changes = {}
  /\ index = 0
  /\ now = 0
  /\ last = RingCall("newChangeList", <<>>, 0, newChangeList(RingCapacity), ZeroChange)
  /\ cw = Watch
  /\ ws = <<>>
  /\ txs = NoTxs

\* Next, and the caller writing the slot it returned
RingNext ==
  /\ last.n < RingCapacity + 2
  /\ \E row \in RingRows(last.n + 1) :
       LET handed(cl) ==
             /\ cw' = [cw EXCEPT !.changes = Scan(cl, row)]
             /\ last' = RingCall("Next",
                                 (IF cw.changes.Size = cw.changes.Capacity
                                  THEN Tail(last.items) ELSE last.items) \o <<row.index>>,
                                 last.n + 1, cw.changes, Last(cl))
       IN handed(changeListNext(cw.changes))
  /\ UNCHANGED <<nodes, changes, index, now, ws, txs>>

RingPop ==
  /\ cw' = [cw EXCEPT !.changes = changeListPop(cw.changes)]
  /\ last' = RingCall("Pop",
                      IF last.items = <<>> THEN <<>>
                      ELSE SubSeq(last.items, 1, Len(last.items) - 1),
                      last.n, cw.changes, ZeroChange)
  /\ UNCHANGED <<nodes, changes, index, now, ws, txs>>

NextRing == RingNext \/ RingPop

SpecRing == InitRing /\ [][NextRing]_vars

\* C36: after any sequence of Next and Pop on a list of capacity C,
\* 0 <= Size <= C and 0 <= Begin < C; Pop removes only the newest element
\* and does nothing to an empty list; Item(0) .. Item(Size - 1) are the
\* elements added and neither overwritten nor popped, in insertion order,
\* First the oldest and Last the newest
C36_RingOrder ==
  LET cl == cw.changes
  IN /\ 0 <= cl.Size /\ cl.Size <= cl.Capacity
     /\ 0 <= cl.Begin /\ cl.Begin < cl.Capacity
     /\ cl.Size = Len(last.items)
     /\ \A i \in 0..(cl.Size - 1) : Item(cl, i).Index = last.items[i + 1]
     /\ cl.Size > 0 => /\ First(cl).Index = Head(last.items)
                       /\ Last(cl).Index = last.items[Len(last.items)]
     /\ last.call.op = "Pop" =>
          /\ cl.Begin = last.before.Begin
          /\ cl.changes = last.before.changes
          /\ cl.Size = IF last.before.Size = 0 THEN 0 ELSE last.before.Size - 1

\* the list wrapped around, the newest element was popped and another added
C36_Witness ==
  /\ last.call.op = "Next"
  /\ cw.changes.Begin = 1
  /\ cw.changes.Size = cw.changes.Capacity
  /\ last.before.Size = cw.changes.Capacity - 1
  /\ last.n = cw.changes.Capacity + 2

\* Pop has been called on an empty list
C36_WitnessEmpty ==
  last.call.op = "Pop" /\ last.before.Size = 0 /\ last.n > 0

----------------------------------------------------------------------------
(* The change list as the watcher uses it: fetchSince calls Next for every  *)
(* row and Pop only for the slot it has just taken, when rows.Scan fails;   *)
(* change.Value caches its result in a slot of the list between fetches.    *)

\* c.value = &action
Cached(c) ==
  [c EXCEPT !.value = ActionUpdate(c.Action,
                                   [NilNode EXCEPT !.key = c.Key, !.modifiedIndex = c.Index],
                                   NilNode)]

\* rows.Scan fails: the slot of Next is popped and the fetch ends
FetchScanError ==
  /\ last.n < RingCapacity + 2
  /\ LET handed(cl) ==
           /\ cw' = [cw EXCEPT !.changes = changeListPop(cl)]
           /\ last' = RingCall("NextPop",
                               IF cw.changes.Size = cw.changes.Capacity
                               THEN Tail(last.items) ELSE last.items,
                               last.n + 1, cw.changes, Last(cl))
     IN handed(changeListNext(cw.changes))
  /\ UNCHANGED <<nodes, changes, index, now, ws, txs>>

\* change.Value of an item of the list
FetchValue ==
  /\ \E i \in 0..(cw.changes.Size - 1) :
       /\ Item(cw.changes, i).value = NilAction
       /\ cw' = [cw EXCEPT !.changes.changes[Slot(cw.changes, i)] = Cached(@)]
  /\ last' = [last EXCEPT !.call.op = "Value"]
  /\ UNCHANGED <<nodes, changes, index, now, ws, txs>>

NextFetch == RingNext \/ FetchScanError \/ FetchValue

SpecFetch == InitRing /\ [][NextFetch]_vars

\* C37: Next on a full list returns the slot that held the oldest element
\* with its cached value cleared, leaves Size at the capacity and makes First
\* the element that was second-oldest; every slot Next hands out has a
\* cleared cache
C37_NextClears ==
  last.call.op \in {"Next", "NextPop"} =>
    /\ last.handed.value = NilAction
    /\ last.before.Size = last.before.Capacity =>
         /\ last.handed = [Item(last.before, 0) EXCEPT !.value = NilAction]
         /\ last.call.op = "Next" =>
              /\ cw.changes.Size = cw.changes.Capacity
              /\ Slot(cw.changes, 0) = Slot(last.before, 1)
              /\ cw.changes.Capacity > 1 => First(cw.changes) = Item(last.before, 1)

\* Next has taken the slot of the oldest element of a full list, whose value
\* was cached
C37_Witness ==
  /\ last.call.op = "Next"
  /\ last.before.Size = last.before.Capacity
  /\ Item(last.before, 0).value # NilAction
  /\ First(cw.changes).value # NilAction

\* C38: a Set without TTL on a key whose live node has an expiration leaves a
\* live node with no expiration and no ttl, and no sweep ever expires a live
\* node that has no expiration
C38_SetClearsTTL ==
  [][/\ (last'.call.op = "Set" /\ last'.err = NoErr /\ last'.prev.expiration # Null) =>
          /\ last'.node.ttl = Null
          /\ last'.node.expiration = Null
          /\ \E n \in nodes' : /\ n.key = last'.call.key /\ n.deleted = 0
                               /\ n.modified = last'.index /\ n.expiration = Null
     /\ \A n \in nodes :
          (n.deleted = 0 /\ n.expiration = Null) =>
            ~\E c \in changes' \ changes :
                c.action = "expire" /\ c.key = n.key]_vars

\* a node whose TTL a Set cleared is live after its old expiration has
\* passed and a later call has swept
C38_Witness ==
  /\ last.call.op = "Get"
  /\ \E n, p \in nodes :
       /\ n.key = p.key
       /\ n.deleted = 0 /\ n.expiration = Null /\ ~n.dir
       /\ p.deleted = n.modified /\ p.expiration # Null
       /\ now > p.expiration

\* C39: matching never faults: whatever the lengths of the watch's key and
\* of the key of a change admitted to the ring, Match returns a boolean and
\* the watcher's loop keeps running
C39_MatchNeverFaults == cw.pc # "panic"

----------------------------------------------------------------------------
(* Removal of a subtree next to keys that only look like its descendants:   *)
(* /ab shares the prefix /a, and /a/2 matches the LIKE pattern of /_.       *)

KeyU == <<"/", "_">>
KeyAB == <<"/", "a", "b">>

LikeKeys == {KeyA, KeyU}

LikeIssue(call, r, action) ==
  /\ index < MaxIndex + 1 \/ r.err # NoErr
  /\ Commit(call, r, action)

LikeSet ==
  \E key \in {KeyA2, KeyAB}, ord \in SweepOrders(Database, now) :
    LikeIssue(Call("Set", key, ValueX, Null, FALSE, Always),
              set(Database, now, ord, key, ValueX, FALSE, Null, Always), "")

LikeMkDir ==
  \E key \in LikeKeys, ttl \in TTLs, ord \in SweepOrders(Database, now) :
    LikeIssue(Call("MkDir", key, <<>>, ttl, FALSE, Always),
              set(Database, now, ord, key, <<>>, TRUE, ttl, Always), "")

LikeRmDir ==
  \E key \in LikeKeys, recursive \in BOOLEAN, ord \in SweepOrders(Database, now) :
    LET r == RmDir(Database, now, ord, key, recursive, Always)
    IN LikeIssue(Call("RmDir", key, <<>>, Null, recursive, Always), r,
                 IF r.err = NoErr THEN DeleteActionName(Always) ELSE "")

NextLike ==
  \/ LikeSet
  \/ LikeMkDir
  \/ LikeRmDir
  \/ Tick

SpecLike == Init /\ [][NextLike]_vars

\* C40: RmDir(K) and the expiration of K tombstone only live rows whose key
\* is K or starts with K and "/": a live row that a step tombstones has the
\* key of a change recorded in that step, or a key below it
C40_OnlySubtree ==
  [][\A n \in nodes :
       (n.deleted = 0 /\ n \notin nodes') =>
          \E c \in changes' \ changes :
             n.key = c.key \/ StartsWith(n.key, c.key \o <<"/">>)]_vars
====
